---- MODULE Spec2Model ----
(***************************************************************************)
(* A model of SceneManager (src/SceneManager.cpp): the texture table, the  *)
(* material registry and the scene set-up and tear-down that drive them,   *)
(* together with the part of the OpenGL context they act on (texture       *)
(* names, texture units, blending) and the shader uniform sink.            *)
(*                                                                         *)
(* Every public method is one action.  A method that calls other methods   *)
(* is the composition of their effects; the calls it makes are listed, in  *)
(* order, in the variable trace.                                           *)
(*                                                                         *)
(* m_textureIDs is a C array of MaxTextures elements and CreateGLTexture   *)
(* does not compare m_loadedTextures with its size.  A write past the end  *)
(* is undefined behaviour: the model records it (oobWrites), leaves the    *)
(* counter with any value the stray write can produce, and stops the       *)
(* object (phase = "undefined"): nothing is said about what a program does *)
(* after undefined behaviour.  The same holds for a call through a null    *)
(* m_pShaderManager.                                                       *)
(*                                                                         *)
(* Three specifications share the variables and the construction: Spec     *)
(* drives the texture table and the material registry, DrawSpec adds a     *)
(* client's direct calls of the draw pipeline (SetTransformations,         *)
(* SetShaderColor, SetShaderTexture, SetShaderMaterial, SetTextureUVScale) *)
(* and FrameSpec the frames of RenderScene over the tables set-up leaves.  *)
(***************************************************************************)
EXTENDS Integers, Sequences, FiniteSets, TLC

\* ---------------------------------------------------------------- bounds
\* direct CreateGLTexture calls made by a client, per scene
MaxLoads == 2
\* PrepareScene calls per scene
MaxPrepare == 2
\* direct calls of the draw pipeline (SetTransformations, SetShaderColor,
\* SetShaderTexture, SetShaderMaterial, SetTextureUVScale) made by a client
MaxSets == 2

\* ------------------------------------------------------ program constants
\* size of m_textureIDs (the constructor's loop bound)
MaxTextures == 16
\* the placeholder the constructor stores in every slot
NoTag == "/0"
NoID == -1
\* the "not found" result of FindTextureID and FindTextureSlot
NotFound == -1

\* the tags LoadSceneTextures registers, in call order
SceneTextures ==
  << "keyboard", "thinkpad", "hinge", "wood1", "wood2", "couch", "zipper",
     "panda", "rug", "screen", "pctexture", "i7", "suitcase", "window",
     "rusticwood", "whitewood" >>

\* tags a client passes to CreateGLTexture directly
LoadTags == {"wood1", "wood2"}
\* tags a client looks up in the texture table
QueryTags == {"wood2", "missing", NoTag}
\* tags a client looks up in the material registry
MaterialQueryTags == {"wood", ""}
\* tags a client passes to SetShaderTexture
DrawTags == {"wood2", "missing"}
\* the CreateGLTexture calls of LoadSceneTextures whose image file may be
\* missing or corrupt: the 5th, "wood2"
FailingFiles == {5}

VARIABLES
  phase,             \* "live", "destroyed" or "undefined"
  m_pShaderManager,  \* "sink" or "NULL"
  m_textureIDs,      \* 0..MaxTextures-1 -> [tag, ID]
  m_loadedTextures,  \* number of live slots
  m_objectMaterials, \* sequence of [tag, diffuseColor, specularColor, shininess]
  meshesLoaded,      \* meshes of m_basicMeshes that have been loaded
  glReuse,           \* driver policy: glGenTextures reuses deleted names
  glNextName,        \* the next never-used texture name
  glTextures,        \* texture names that exist in the context
  glBound,           \* texture unit -> name bound to GL_TEXTURE_2D (0: none)
  glActive,          \* the active texture unit
  glBlend,           \* GL_BLEND enabled
  glBadDeletes,      \* glDeleteTextures calls on a name that does not exist
  uniforms,          \* uniform name -> value written through the sink
  oobWrites,         \* writes to m_textureIDs past its last element
  call,              \* the last call: [op, tag, ok, val]
  trace,             \* the calls the last call made, in order
  before,            \* the table and the context when the last call began
  loaded,            \* CreateGLTexture calls that returned true since the
                     \* table was last empty (construction, DestroyGLTextures)
  nLoads,            \* direct CreateGLTexture calls so far
  nSets              \* direct calls of the draw pipeline so far

vars ==
  << phase, m_pShaderManager, m_textureIDs, m_loadedTextures,
     m_objectMaterials, meshesLoaded, glReuse, glNextName, glTextures,
     glBound, glActive, glBlend, glBadDeletes, uniforms, oobWrites, call,
     trace, before, loaded, nLoads, nSets >>

Slots == 0 .. MaxTextures - 1

\* ------------------------------------------------------------ OpenGL side
\* The part of the program state the texture operations act on, as a record,
\* so that a method calling several of them is their composition.
Machine ==
  [ ids |-> m_textureIDs, n |-> m_loadedTextures, mats |-> m_objectMaterials,
    meshes |-> meshesLoaded, tex |-> glTextures, bound |-> glBound,
    active |-> glActive, next |-> glNextName, blend |-> glBlend,
    bad |-> glBadDeletes, uni |-> uniforms, oob |-> oobWrites,
    loaded |-> loaded, ub |-> FALSE, log |-> << >> ]

\* one entry of trace: the call, its tag argument, its result, its number
Event(op, tag, ret, val) == [op |-> op, tag |-> tag, ret |-> ret, val |-> val]
Logged(st, e) == [st EXCEPT !.log = Append(@, e)]

Min(S) == CHOOSE x \in S : \A y \in S : x <= y

\* glGenTextures(1, &textureID): an unused, non-zero name
glGenTextures(st) ==
  IF glReuse
    THEN Min({k \in 1 .. st.next : k \notin st.tex})
    ELSE st.next

\* glBindTexture(GL_TEXTURE_2D, name) on the active unit
glBindTexture(st, name) ==
  [st EXCEPT !.bound = [@ EXCEPT ![st.active] = name]]

\* glDeleteTextures(1, &name): the name is freed and every unit it is bound
\* to reverts to 0; a name that does not exist is ignored
glDeleteTextures(st, name) ==
  IF name \in st.tex
    THEN [st EXCEPT !.tex = @ \ {name},
                    !.bound = [u \in DOMAIN @ |-> IF @[u] = name THEN 0 ELSE @[u]]]
    ELSE [st EXCEPT !.bad = @ + 1]
\* ------------------------------------------------------- texture table
\* lines 86-111: generate a name, bind it to the active unit, upload the
\* image, and bind 0 again
UploadTexture(st, textureID) ==
  LET made == [st EXCEPT !.tex = @ \cup {textureID},
                         !.next = IF textureID = @ THEN @ + 1 ELSE @]
  IN glBindTexture(glBindTexture(made, textureID), 0)

\* lines 113-116: the write is in bounds only when m_loadedTextures is an
\* index of the array; the code does not test it
RegisterTexture(st, tag, textureID) ==
  IF st.n \in DOMAIN st.ids
    THEN Logged([st EXCEPT !.ids = [@ EXCEPT ![st.n] = [tag |-> tag, ID |-> textureID]],
                           !.n = @ + 1, !.loaded = @ + 1],
                Event("CreateGLTexture", tag, "true", st.n))
    ELSE Logged([st EXCEPT !.oob = @ + 1, !.ub = TRUE],
                Event("CreateGLTexture", tag, "undefined", st.n))

\* CreateGLTexture without the early return of lines 81-84
CreateGLTexture_NoEarlyReturn(st, tag, decoded) ==
  IF st.ub THEN st
  ELSE LET textureID == glGenTextures(st)
       IN RegisterTexture(UploadTexture(st, textureID), tag, textureID)

CreateGLTexture(st, tag, decoded) ==
  IF st.ub THEN st
  ELSE IF ~decoded
    THEN Logged(st, Event("CreateGLTexture", tag, "false", NotFound))
    ELSE LET textureID == glGenTextures(st)
         IN RegisterTexture(UploadTexture(st, textureID), tag, textureID)

RECURSIVE BindLoop(_, _)
BindLoop(st, i) ==
  IF i < st.n
    THEN BindLoop(Logged(glBindTexture([st EXCEPT !.active = i], st.ids[i].ID),
                         Event("glBindTexture", st.ids[i].tag, "", i)),
                  i + 1)
    ELSE st

\* BindGLTextures without the glActiveTexture call of line 133
RECURSIVE BindLoop_OneUnit(_, _)
BindLoop_OneUnit(st, i) ==
  IF i < st.n
    THEN BindLoop_OneUnit(Logged(glBindTexture(st, st.ids[i].ID),
                                 Event("glBindTexture", st.ids[i].tag, "", i)),
                          i + 1)
    ELSE st

BindGLTextures_OneUnit(st) ==
  IF st.ub THEN st
  ELSE BindLoop_OneUnit(Logged(st, Event("BindGLTextures", "", "", st.n)), 0)

BindGLTextures(st) ==
  IF st.ub THEN st
  ELSE BindLoop(Logged(st, Event("BindGLTextures", "", "", st.n)), 0)

RECURSIVE DestroyLoop(_, _)
DestroyLoop(st, i) ==
  IF i < st.n
    THEN IF st.ids[i].ID # 0
           THEN DestroyLoop(
                  Logged([glDeleteTextures(st, st.ids[i].ID)
                            EXCEPT !.ids = [@ EXCEPT ![i] = [@ EXCEPT !.ID = 0]]],
                         Event("glDeleteTextures", st.ids[i].tag, "", st.ids[i].ID)),
                  i + 1)
           ELSE DestroyLoop(st, i + 1)
    ELSE st

\* DestroyGLTextures without the reset of line 153
DestroyGLTextures_KeepCount(st) ==
  IF st.ub THEN st
  ELSE DestroyLoop(Logged(st, Event("DestroyGLTextures", "", "", st.n)), 0)

\* DestroyGLTextures with the loop of line 146 run over the whole array
DestroyGLTextures_AllSlots(st) ==
  IF st.ub THEN st
  ELSE [DestroyLoop([Logged(st, Event("DestroyGLTextures", "", "", st.n))
                       EXCEPT !.n = MaxTextures], 0)
          EXCEPT !.n = 0, !.loaded = 0]

DestroyGLTextures(st) ==
  IF st.ub THEN st
  ELSE [DestroyLoop(Logged(st, Event("DestroyGLTextures", "", "", st.n)), 0)
          EXCEPT !.n = 0, !.loaded = 0]

RECURSIVE FindTextureIDLoop(_, _, _, _)
FindTextureIDLoop(ids, n, tag, index) ==
  IF index < n
    THEN IF ids[index].tag = tag
           THEN ids[index].ID
           ELSE FindTextureIDLoop(ids, n, tag, index + 1)
    ELSE NotFound

FindTextureID(ids, n, tag) == FindTextureIDLoop(ids, n, tag, 0)

RECURSIVE FindTextureSlotLoop(_, _, _, _)
FindTextureSlotLoop(ids, n, tag, index) ==
  IF index < n
    THEN IF ids[index].tag = tag
           THEN index
           ELSE FindTextureSlotLoop(ids, n, tag, index + 1)
    ELSE NotFound

\* FindTextureSlot with the scan started at the second slot
FindTextureSlot_FromSecond(ids, n, tag) == FindTextureSlotLoop(ids, n, tag, 1)

\* FindTextureSlot scanning the whole array, stale slots included
FindTextureSlot_AllSlots(ids, n, tag) ==
  FindTextureSlotLoop(ids, MaxTextures, tag, 0)

FindTextureSlot(ids, n, tag) == FindTextureSlotLoop(ids, n, tag, 0)
\* ---------------------------------------------------- material registry
\* colours and floats are in thousandths
Material(tag, diffuseColor, specularColor, shininess) ==
  [ tag |-> tag, diffuseColor |-> diffuseColor,
    specularColor |-> specularColor, shininess |-> shininess ]

\* the OBJECT_MATERIAL a caller declares without initialising it
NoMaterial == Material("", << >>, << >>, -1)

SceneMaterials ==
  << Material("plastic",     <<600, 600, 600>>, <<800, 800, 800>>,    300000),
     Material("hardplastic", <<100, 100, 100>>, <<500, 500, 500>>,    150000),
     Material("wood",        <<550, 270,  70>>, <<100,  50,  20>>,     20000),
     Material("silicone",    <<900, 900, 900>>, <<200, 200, 200>>,      2000),
     Material("rug",         <<650, 450, 300>>, << 50,  50,  50>>,      1000),
     Material("wall",        <<550, 550, 550>>, <<200, 200, 200>>,      5000),
     Material("metal",       <<700, 700, 700>>, <<1000, 1000, 1000>>, 300000),
     Material("window",      <<100, 100, 100>>, <<900, 900, 900>>,    500000) >>

\* DefineObjectMaterials without the material "metal"
DefineObjectMaterials_NoMetal(st) ==
  IF st.ub THEN st
  ELSE Logged([st EXCEPT !.mats = @ \o SelectSeq(SceneMaterials,
                                                 LAMBDA m : m.tag # "metal")],
              Event("DefineObjectMaterials", "", "", Len(SceneMaterials) - 1))

DefineObjectMaterials(st) ==
  IF st.ub THEN st
  ELSE Logged([st EXCEPT !.mats = @ \o SceneMaterials],
              Event("DefineObjectMaterials", "", "", Len(SceneMaterials)))

\* the loop of FindMaterial: the material is copied out at the first match;
\* index is where the scan stopped (Len(mats) + 1 when nothing matched)
RECURSIVE FindMaterialLoop(_, _, _, _)
FindMaterialLoop(mats, tag, material, index) ==
  IF index <= Len(mats)
    THEN IF mats[index].tag = tag
           THEN [ material |->
                    [ material EXCEPT !.diffuseColor = mats[index].diffuseColor,
                                      !.specularColor = mats[index].specularColor,
                                      !.shininess = mats[index].shininess ],
                  index |-> index ]
           ELSE FindMaterialLoop(mats, tag, material, index + 1)
    ELSE [material |-> material, index |-> index]

\* the scan of FindMaterial run from the last registered material down
RECURSIVE FindMaterialLoop_Down(_, _, _, _)
FindMaterialLoop_Down(mats, tag, material, index) ==
  IF index >= 1
    THEN IF mats[index].tag = tag
           THEN [ material |->
                    [ material EXCEPT !.diffuseColor = mats[index].diffuseColor,
                                      !.specularColor = mats[index].specularColor,
                                      !.shininess = mats[index].shininess ],
                  index |-> index ]
           ELSE FindMaterialLoop_Down(mats, tag, material, index - 1)
    ELSE [material |-> material, index |-> Len(mats) + 1]

\* FindMaterial returning the latest registered material with the tag
FindMaterial_Latest(mats, tag, material) ==
  IF Len(mats) = 0
    THEN [ret |-> FALSE, material |-> material, index |-> 0]
    ELSE LET scan == FindMaterialLoop_Down(mats, tag, material, Len(mats))
         IN [ret |-> TRUE, material |-> scan.material, index |-> scan.index]

\* FindMaterial(tag, material): the value returned, the material left in the
\* caller's variable and the position the scan stopped at
FindMaterial(mats, tag, material) ==
  IF Len(mats) = 0
    THEN [ret |-> FALSE, material |-> material, index |-> 0]
    ELSE LET scan == FindMaterialLoop(mats, tag, material, 1)
         IN [ret |-> TRUE, material |-> scan.material, index |-> scan.index]

\* ---------------------------------------------------------- uniform sink
UniformNames ==
  { "model", "objectColor", "objectTexture", "bUseTexture", "bUseLighting",
    "material.diffuseColor", "material.specularColor", "material.shininess",
    "UVscale" }
  \cup { "pointLights[0].position", "pointLights[0].ambient",
         "pointLights[0].diffuse", "pointLights[0].specular",
         "pointLights[0].bActive", "pointLights[0].constant",
         "pointLights[0].linear", "pointLights[0].quadratic",
         "pointLights[1].position", "pointLights[1].ambient",
         "pointLights[1].diffuse", "pointLights[1].specular",
         "pointLights[1].bActive", "pointLights[1].constant",
         "pointLights[1].linear", "pointLights[1].quadratic",
         "pointLights[2].position", "pointLights[2].ambient",
         "pointLights[2].diffuse", "pointLights[2].specular",
         "pointLights[2].bActive", "pointLights[2].constant",
         "pointLights[2].linear", "pointLights[2].quadratic" }

\* m_pShaderManager->set...Value(name, value): a call through the pointer,
\* undefined when the pointer is null
SetValue(st, name, value) ==
  IF st.ub THEN st
  ELSE IF m_pShaderManager = "NULL"
    THEN Logged([st EXCEPT !.ub = TRUE], Event("set", name, "undefined", 0))
    ELSE [st EXCEPT !.uni = [@ EXCEPT ![name] = value]]

\* the uniform writes of SetupSceneLights, in order (values in thousandths)
SceneLights ==
  << <<"bUseLighting", <<1>> >>,
     <<"pointLights[0].position", <<-110000, 50000, 20000>> >>,
     <<"pointLights[0].ambient", <<700, 700, 700>> >>,
     <<"pointLights[0].diffuse", <<400, 400, 400>> >>,
     <<"pointLights[0].specular", <<500, 500, 500>> >>,
     <<"pointLights[0].bActive", <<1>> >>,
     <<"pointLights[0].constant", <<1000>> >>,
     <<"pointLights[0].linear", <<13>> >>,
     <<"pointLights[0].quadratic", <<2>> >>,
     <<"pointLights[1].position", <<30000, 30000, 0>> >>,
     <<"pointLights[1].ambient", <<105, 84, 70>> >>,
     <<"pointLights[1].diffuse", <<175, 140, 105>> >>,
     <<"pointLights[1].specular", <<105, 70, 56>> >>,
     <<"pointLights[1].bActive", <<1>> >>,
     <<"pointLights[1].constant", <<500>> >>,
     <<"pointLights[1].linear", <<15>> >>,
     <<"pointLights[1].quadratic", <<2>> >>,
     <<"pointLights[2].position", <<0, 50000, 0>> >>,
     <<"pointLights[2].ambient", <<105, 84, 70>> >>,
     <<"pointLights[2].diffuse", <<175, 140, 105>> >>,
     <<"pointLights[2].specular", <<105, 70, 56>> >>,
     <<"pointLights[2].bActive", <<1>> >>,
     <<"pointLights[2].constant", <<500>> >>,
     <<"pointLights[2].linear", <<15>> >>,
     <<"pointLights[2].quadratic", <<2>> >> >>

RECURSIVE SetValues(_, _, _)
SetValues(st, writes, k) ==
  IF k <= Len(writes)
    THEN SetValues(SetValue(st, writes[k][1], writes[k][2]), writes, k + 1)
    ELSE st

\* SetupSceneLights without its last write, of line 447
SetupSceneLights_ShortLight(st) ==
  IF st.ub THEN st
  ELSE SetValues(Logged(st, Event("SetupSceneLights", "", "", 0)),
                 SubSeq(SceneLights, 1, Len(SceneLights) - 1), 1)

SetupSceneLights(st) ==
  IF st.ub THEN st
  ELSE SetValues(Logged(st, Event("SetupSceneLights", "", "", 0)), SceneLights, 1)

\* ---------------------------------------------------------- draw pipeline
\* Lengths, colours and angles are in thousandths; a glm::mat4 is its four
\* rows, and a product is rounded to the nearest thousandth.
Rescaled(x) == (x + 500) \div 1000

\* a * b, each operand evaluated once (x, y)
MatMul(a, b) ==
  CHOOSE product \in
    { [i \in 1 .. 4 |->
        [j \in 1 .. 4 |->
          Rescaled(x[i][1] * y[1][j] + x[i][2] * y[2][j]
                     + x[i][3] * y[3][j] + x[i][4] * y[4][j])]] :
      x \in {a}, y \in {b} } : TRUE

\* sin and cos of glm::radians(degrees), for the angles RenderScene uses
Sine(degrees) ==
  CASE degrees = 0 -> 0
    [] degrees = 60000 -> 866
    [] degrees = 90000 -> 1000
    [] degrees = 120000 -> 866
    [] degrees = 180000 -> 0
    [] degrees = 207500 -> -462

Cosine(degrees) ==
  CASE degrees = 0 -> 1000
    [] degrees = 60000 -> 500
    [] degrees = 90000 -> 0
    [] degrees = 120000 -> -500
    [] degrees = 180000 -> -1000
    [] degrees = 207500 -> -887

glmScale(v) ==
  << << v[1], 0, 0, 0 >>,
     << 0, v[2], 0, 0 >>,
     << 0, 0, v[3], 0 >>,
     << 0, 0, 0, 1000 >> >>

glmTranslate(v) ==
  << << 1000, 0, 0, v[1] >>,
     << 0, 1000, 0, v[2] >>,
     << 0, 0, 1000, v[3] >>,
     << 0, 0, 0, 1000 >> >>

\* glm::rotate(glm::radians(degrees), axis) for the three unit axes
glmRotate(degrees, axis) ==
  LET c == Cosine(degrees)
      s == Sine(degrees)
  IN CASE axis = "X" -> << << 1000, 0, 0, 0 >>,
                           << 0, c, -s, 0 >>,
                           << 0, s, c, 0 >>,
                           << 0, 0, 0, 1000 >> >>
       [] axis = "Y" -> << << c, 0, s, 0 >>,
                           << 0, 1000, 0, 0 >>,
                           << -s, 0, c, 0 >>,
                           << 0, 0, 0, 1000 >> >>
       [] axis = "Z" -> << << c, -s, 0, 0 >>,
                           << s, c, 0, 0 >>,
                           << 0, 0, 1000, 0 >>,
                           << 0, 0, 0, 1000 >> >>

\* the arguments of a SetTransformations call
Transform(scaleXYZ, XrotationDegrees, YrotationDegrees, ZrotationDegrees, positionXYZ) ==
  [ scaleXYZ |-> scaleXYZ, XrotationDegrees |-> XrotationDegrees,
    YrotationDegrees |-> YrotationDegrees, ZrotationDegrees |-> ZrotationDegrees,
    positionXYZ |-> positionXYZ ]

\* SetTransformations with the product of line 273 taken in the opposite order
SetTransformations_ScaleLast(st, t) ==
  IF st.ub THEN st
  ELSE LET scale == glmScale(t.scaleXYZ)
           rotationX == glmRotate(t.XrotationDegrees, "X")
           rotationY == glmRotate(t.YrotationDegrees, "Y")
           rotationZ == glmRotate(t.ZrotationDegrees, "Z")
           translation == glmTranslate(t.positionXYZ)
           modelView ==
             MatMul(MatMul(MatMul(MatMul(scale, rotationX), rotationY),
                           rotationZ), translation)
       IN IF m_pShaderManager # "NULL"
            THEN SetValue(Logged(st, Event("SetTransformations", "", "", 0)),
                          "model", modelView)
            ELSE Logged(st, Event("SetTransformations", "", "skipped", 0))

SetTransformations(st, t) ==
  IF st.ub THEN st
  ELSE LET scale == glmScale(t.scaleXYZ)
           rotationX == glmRotate(t.XrotationDegrees, "X")
           rotationY == glmRotate(t.YrotationDegrees, "Y")
           rotationZ == glmRotate(t.ZrotationDegrees, "Z")
           translation == glmTranslate(t.positionXYZ)
           modelView ==
             MatMul(MatMul(MatMul(MatMul(translation, rotationZ), rotationY),
                           rotationX), scale)
       IN IF m_pShaderManager # "NULL"
            THEN SetValue(Logged(st, Event("SetTransformations", "", "", 0)),
                          "model", modelView)
            ELSE Logged(st, Event("SetTransformations", "", "skipped", 0))

\* SetShaderColor without the write of line 303
SetShaderColor_KeepFlag(st, currentColor) ==
  IF st.ub THEN st
  ELSE IF m_pShaderManager # "NULL"
    THEN SetValue(Logged(st, Event("SetShaderColor", "", "", 0)),
                  "objectColor", currentColor)
    ELSE Logged(st, Event("SetShaderColor", "", "skipped", 0))

SetShaderColor(st, currentColor) ==
  IF st.ub THEN st
  ELSE IF m_pShaderManager # "NULL"
    THEN SetValue(SetValue(Logged(st, Event("SetShaderColor", "", "", 0)),
                           "bUseTexture", << 0 >>),
                  "objectColor", currentColor)
    ELSE Logged(st, Event("SetShaderColor", "", "skipped", 0))

\* the values an OBJECT_MATERIAL declared without an initialiser may hold
Indeterminate ==
  { Material("", << 0, 0, 0 >>, << 0, 0, 0 >>, 0),
    Material("", << -1, -1, -1 >>, << -1, -1, -1 >>, -1) }

\* SetShaderMaterial(materialTag); material is what line 319 leaves in the
\* local variable.  The calls through m_pShaderManager are not guarded.
SetShaderMaterial(st, materialTag, material) ==
  IF st.ub THEN st
  ELSE IF Len(st.mats) > 0
    THEN LET found == FindMaterial(st.mats, materialTag, material)
         IN IF found.ret
              THEN SetValue(
                     SetValue(
                       SetValue(Logged(st, Event("SetShaderMaterial", materialTag,
                                                 "true", found.index)),
                                "material.diffuseColor", found.material.diffuseColor),
                       "material.specularColor", found.material.specularColor),
                     "material.shininess", << found.material.shininess >>)
              ELSE Logged(st, Event("SetShaderMaterial", materialTag, "false",
                                    found.index))
    ELSE Logged(st, Event("SetShaderMaterial", materialTag, "skipped", 0))

\* SetShaderTexture pushing the texture ID of the tag instead of its slot
SetShaderTexture_PushID(st, textureTag) ==
  IF st.ub THEN st
  ELSE IF m_pShaderManager # "NULL"
    THEN LET textureID == FindTextureID(st.ids, st.n, textureTag)
         IN SetValue(SetValue(Logged(st, Event("SetShaderTexture", textureTag,
                                               "", textureID)),
                              "bUseTexture", << 1 >>),
                     "objectTexture", << textureID >>)
    ELSE Logged(st, Event("SetShaderTexture", textureTag, "skipped", NotFound))

\* SetShaderTexture returning early when the tag is not registered
SetShaderTexture_SkipUnknown(st, textureTag) ==
  IF st.ub THEN st
  ELSE IF m_pShaderManager # "NULL"
            /\ FindTextureSlot(st.ids, st.n, textureTag) # NotFound
    THEN LET textureID == FindTextureSlot(st.ids, st.n, textureTag)
         IN SetValue(SetValue(Logged(st, Event("SetShaderTexture", textureTag,
                                               "", textureID)),
                              "bUseTexture", << 1 >>),
                     "objectTexture", << textureID >>)
    ELSE Logged(st, Event("SetShaderTexture", textureTag, "skipped", NotFound))

SetShaderTexture(st, textureTag) ==
  IF st.ub THEN st
  ELSE IF m_pShaderManager # "NULL"
    THEN LET textureID == FindTextureSlot(st.ids, st.n, textureTag)
         IN SetValue(SetValue(Logged(st, Event("SetShaderTexture", textureTag,
                                               "", textureID)),
                              "bUseTexture", << 1 >>),
                     "objectTexture", << textureID >>)
    ELSE Logged(st, Event("SetShaderTexture", textureTag, "skipped", NotFound))

\* SetTextureUVScale switching texturing on as well
SetTextureUVScale_SetsFlag(st, uv) ==
  IF st.ub THEN st
  ELSE IF m_pShaderManager # "NULL"
    THEN SetValue(SetValue(Logged(st, Event("SetTextureUVScale", "", "", 0)),
                           "bUseTexture", << 1 >>),
                  "UVscale", uv)
    ELSE Logged(st, Event("SetTextureUVScale", "", "skipped", 0))

SetTextureUVScale(st, uv) ==
  IF st.ub THEN st
  ELSE IF m_pShaderManager # "NULL"
    THEN SetValue(Logged(st, Event("SetTextureUVScale", "", "", 0)), "UVscale", uv)
    ELSE Logged(st, Event("SetTextureUVScale", "", "skipped", 0))

\* ------------------------------------------------------------ scene set-up
\* the CreateGLTexture calls of LoadSceneTextures from the k-th on; failed is
\* the set of calls whose image file does not decode
RECURSIVE LoadEach(_, _, _)
LoadEach(st, failed, k) ==
  IF k <= Len(SceneTextures)
    THEN LoadEach(CreateGLTexture(st, SceneTextures[k], k \notin failed), failed, k + 1)
    ELSE st

\* LoadSceneTextures with BindGLTextures called before the textures are loaded
LoadSceneTextures_BindFirst(st, failed) == LoadEach(BindGLTextures(st), failed, 1)

LoadSceneTextures(st, failed) == BindGLTextures(LoadEach(st, failed, 1))

\* the meshes PrepareScene loads and the draw calls it makes, in order
SceneMeshes ==
  << "Box", "Plane", "Cylinder", "Cone", "Prism", "Pyramid4", "Sphere",
     "TaperedCylinder", "Torus" >>
SetupDraws == << "DrawHalfSphereMesh", "DrawHalfTorusMesh", "DrawHalfSphereMeshLines" >>

RECURSIVE LoadMeshes(_, _)
LoadMeshes(st, k) ==
  IF k <= Len(SceneMeshes)
    THEN LoadMeshes(Logged([st EXCEPT !.meshes = @ \cup {SceneMeshes[k]}],
                           Event("LoadMesh", SceneMeshes[k], "", 0)),
                    k + 1)
    ELSE st

\* m_basicMeshes->Draw...Mesh(): the draw is logged with the blending it is
\* made under (1: GL_BLEND enabled)
DrawMesh(st, name) ==
  Logged(st, [ op |-> "DrawMesh", tag |-> name, ret |-> "",
               val |-> IF st.blend THEN 1 ELSE 0, uni |-> st.uni ])

RECURSIVE DrawMeshes(_, _, _)
DrawMeshes(st, draws, k) ==
  IF k <= Len(draws)
    THEN DrawMeshes(DrawMesh(st, draws[k]), draws, k + 1)
    ELSE st

PrepareMeshes(st) ==
  IF st.ub THEN st ELSE DrawMeshes(LoadMeshes(st, 1), SetupDraws, 1)

PrepareScene(st, failed) ==
  PrepareMeshes(
    SetupSceneLights(
      DefineObjectMaterials(
        LoadSceneTextures(
          Logged([st EXCEPT !.blend = TRUE], Event("glEnable", "GL_BLEND", "", 0)),
          failed))))

\* the calls RenderScene makes, in order, with the values its local variables
\* (scaleXYZ, the three rotations, positionXYZ) hold at each call
SceneCalls ==
  << <<"SetTransformations", <<<<16500, 1000, 10000>>, 0, 0, 0, <<0, 0, 0>>>>>>,
     <<"SetShaderColor", <<1000, 1000, 1000, 1000>>>>,
     <<"SetShaderTexture", "rusticwood">>,
     <<"SetShaderMaterial", "wood">>,
     <<"SetTextureUVScale", <<1000, 1000>>>>,
     <<"DrawMesh", "DrawPlaneMesh">>,
     <<"SetTransformations", <<<<1510, 1130, 1510>>, 0, 0, 0, <<9000, 7800, -4000>>>>>>,
     <<"SetShaderColor", <<1000, 1000, 1000, 1000>>>>,
     <<"SetShaderMaterial", "silicone">>,
     <<"DrawMesh", "DrawHalfSphereMesh">>,
     <<"SetTransformations", <<<<1500, 1100, 1500>>, 0, 207500, 0, <<9000, 6800, -4000>>>>>>,
     <<"SetShaderColor", <<1000, 1000, 1000, 1000>>>>,
     <<"SetShaderTexture", "panda">>,
     <<"SetTextureUVScale", <<3000, 1000>>>>,
     <<"SetShaderMaterial", "silicone">>,
     <<"DrawMesh", "DrawCylinderMesh">>,
     <<"SetTransformations", <<<<550, 300, 550>>, 90000, 0, 0, <<7800, 8700, -4000>>>>>>,
     <<"SetShaderColor", <<0, 0, 0, 1000>>>>,
     <<"SetShaderMaterial", "silicone">>,
     <<"DrawMesh", "DrawSphereMesh">>,
     <<"SetTransformations", <<<<550, 300, 550>>, 90000, 0, 0, <<10300, 8700, -4000>>>>>>,
     <<"SetShaderColor", <<0, 0, 0, 1000>>>>,
     <<"SetShaderMaterial", "silicone">>,
     <<"DrawMesh", "DrawSphereMesh">>,
     <<"SetTransformations", <<<<1400, 1000, 1400>>, 0, 0, 0, <<9000, 6400, -4000>>>>>>,
     <<"SetShaderColor", <<0, 0, 0, 1000>>>>,
     <<"SetShaderTexture", "zipper">>,
     <<"SetTextureUVScale", <<3000, 3000>>>>,
     <<"SetShaderMaterial", "plastic">>,
     <<"DrawMesh", "DrawCylinderMesh">>,
     <<"SetTransformations", <<<<1500, 5000, 1500>>, 0, 0, 0, <<9000, 1500, -4000>>>>>>,
     <<"SetShaderColor", <<1000, 1000, 1000, 1000>>>>,
     <<"SetShaderMaterial", "silicone">>,
     <<"DrawMesh", "DrawCylinderMesh">>,
     <<"SetTransformations", <<<<1500, 700, 1500>>, 180000, 0, 0, <<9000, 1500, -4000>>>>>>,
     <<"SetShaderColor", <<1000, 1000, 1000, 1000>>>>,
     <<"SetShaderMaterial", "silicone">>,
     <<"DrawMesh", "DrawTaperedCylinderMesh">>,
     <<"SetTransformations", <<<<1300, 800, 1300>>, 0, 0, 0, <<9000, 1200, -4000>>>>>>,
     <<"SetShaderColor", <<1000, 1000, 1000, 1000>>>>,
     <<"SetShaderMaterial", "silicone">>,
     <<"DrawMesh", "DrawCylinderMesh">>,
     <<"SetTransformations", <<<<1300, 1000, 1300>>, 180000, 0, 0, <<9000, 1200, -4000>>>>>>,
     <<"SetShaderColor", <<1000, 1000, 1000, 1000>>>>,
     <<"SetShaderMaterial", "silicone">>,
     <<"DrawMesh", "DrawTaperedCylinderMesh">>,
     <<"SetTransformations", <<<<1000, 600, 1000>>, 0, 0, 0, <<9000, 300, -4000>>>>>>,
     <<"SetShaderColor", <<1000, 1000, 1000, 1000>>>>,
     <<"SetShaderMaterial", "silicone">>,
     <<"DrawMesh", "DrawCylinderMesh">>,
     <<"SetTransformations", <<<<830, 830, 830>>, 90000, 0, 0, <<9000, 300, -4000>>>>>>,
     <<"SetShaderColor", <<1000, 1000, 1000, 1000>>>>,
     <<"SetShaderMaterial", "silicone">>,
     <<"DrawMesh", "DrawTorusMesh">>,
     <<"SetTransformations", <<<<70000, 1000, 45000>>, 90000, 0, 0, <<0, 15000, -40000>>>>>>,
     <<"SetShaderColor", <<600, 600, 600, 1000>>>>,
     <<"SetShaderMaterial", "wall">>,
     <<"DrawMesh", "DrawPlaneMesh">>,
     <<"SetTransformations", <<<<70000, 1000, 45000>>, 90000, 0, 0, <<0, 15000, 30000>>>>>>,
     <<"SetShaderColor", <<600, 600, 600, 1000>>>>,
     <<"SetShaderMaterial", "wall">>,
     <<"DrawMesh", "DrawPlaneMesh">>,
     <<"glEnable", "GL_BLEND">>,
     <<"SetTransformations", <<<<32500, 1000, 20000>>, 90000, 90000, 0, <<-70000, 30000, -2500>>>>>>,
     <<"SetShaderColor", <<750, 750, 750, 400>>>>,
     <<"SetShaderMaterial", "window">>,
     <<"SetShaderTexture", "window">>,
     <<"SetTextureUVScale", <<1000, 1000>>>>,
     <<"DrawMesh", "DrawPlaneMesh">>,
     <<"glDisable", "GL_BLEND">>,
     <<"SetTransformations", <<<<5000, 1000, 35000>>, 0, 0, 90000, <<-70000, 55000, -5000>>>>>>,
     <<"SetShaderColor", <<550, 570, 570, 1000>>>>,
     <<"SetShaderMaterial", "wall">>,
     <<"DrawMesh", "DrawPlaneMesh">>,
     <<"SetTransformations", <<<<20000, 1000, 35000>>, 0, 0, 90000, <<-70000, -10000, -5000>>>>>>,
     <<"SetShaderColor", <<630, 630, 630, 1000>>>>,
     <<"SetShaderMaterial", "wall">>,
     <<"DrawMesh", "DrawPlaneMesh">>,
     <<"SetTransformations", <<<<45000, 1000, 35000>>, 0, 0, 90000, <<70000, 15000, -5000>>>>>>,
     <<"SetShaderColor", <<640, 640, 640, 1000>>>>,
     <<"SetShaderMaterial", "wall">>,
     <<"DrawMesh", "DrawPlaneMesh">>,
     <<"SetTransformations", <<<<35000, 1000, 70000>>, 90000, 90000, 90000, <<0, 60000, -5000>>>>>>,
     <<"SetShaderColor", <<650, 650, 650, 1000>>>>,
     <<"DrawMesh", "DrawPlaneMesh">>,
     <<"SetTransformations", <<<<35000, 1000, 70000>>, 90000, 90000, 90000, <<0, -30000, -5000>>>>>>,
     <<"SetShaderColor", <<0, 1000, 1000, 1000>>>>,
     <<"SetShaderTexture", "rug">>,
     <<"SetShaderMaterial", "rug">>,
     <<"SetTextureUVScale", <<1000, 1000>>>>,
     <<"DrawMesh", "DrawPlaneMesh">>,
     <<"SetTransformations", <<<<139700, 600, 2500>>, 90000, 0, 0, <<0, -28700, 29600>>>>>>,
     <<"SetShaderColor", <<1000, 1000, 1000, 1000>>>>,
     <<"SetShaderMaterial", "wall">>,
     <<"DrawMesh", "DrawBoxMesh">>,
     <<"SetTransformations", <<<<600, 2500, 65000>>, 0, 0, 0, <<-70000, -28700, -3000>>>>>>,
     <<"SetShaderColor", <<1000, 1000, 1000, 1000>>>>,
     <<"SetShaderMaterial", "wall">>,
     <<"DrawMesh", "DrawBoxMesh">>,
     <<"SetTransformations", <<<<9700, 600, 2500>>, 90000, 0, 0, <<-14900, -28700, -39500>>>>>>,
     <<"SetShaderColor", <<1000, 1000, 1000, 1000>>>>,
     <<"SetShaderMaterial", "wall">>,
     <<"DrawMesh", "DrawBoxMesh">>,
     <<"SetTransformations", <<<<29900, 600, 2500>>, 90000, 0, 0, <<54960, -28700, -39500>>>>>>,
     <<"SetShaderColor", <<1000, 1000, 1000, 1000>>>>,
     <<"SetShaderMaterial", "wall">>,
     <<"DrawMesh", "DrawBoxMesh">>,
     <<"SetTransformations", <<<<600, 2500, 69700>>, 0, 0, 0, <<69680, -28700, -4980>>>>>>,
     <<"SetShaderColor", <<1000, 1000, 1000, 1000>>>>,
     <<"SetShaderMaterial", "wall">>,
     <<"DrawMesh", "DrawBoxMesh">>,
     <<"SetTransformations", <<<<600, 2500, 64500>>, 0, 0, 0, <<-69300, 10000, -2300>>>>>>,
     <<"SetShaderColor", <<850, 850, 850, 1000>>>>,
     <<"SetShaderMaterial", "wall">>,
     <<"DrawMesh", "DrawBoxMesh">>,
     <<"SetTransformations", <<<<600, 2500, 64500>>, 0, 0, 0, <<-69300, 50000, -2300>>>>>>,
     <<"SetShaderColor", <<850, 850, 850, 1000>>>>,
     <<"SetShaderMaterial", "wall">>,
     <<"DrawMesh", "DrawBoxMesh">>,
     <<"SetTransformations", <<<<600, 40500, 2500>>, 0, 0, 0, <<-69300, 30000, -33300>>>>>>,
     <<"SetShaderColor", <<850, 850, 850, 1000>>>>,
     <<"SetShaderMaterial", "wall">>,
     <<"DrawMesh", "DrawBoxMesh">>,
     <<"SetTransformations", <<<<600, 40500, 2500>>, 0, 0, 0, <<-69300, 30000, 28700>>>>>>,
     <<"SetShaderColor", <<850, 850, 850, 1000>>>>,
     <<"SetShaderMaterial", "wall">>,
     <<"DrawMesh", "DrawBoxMesh">>,
     <<"SetTransformations", <<<<16500, 1000, 10000>>, 0, 0, 0, <<0, -2000, 0>>>>>>,
     <<"SetShaderColor", <<1000, 1000, 1000, 1000>>>>,
     <<"SetTextureUVScale", <<1000, 1000>>>>,
     <<"SetShaderMaterial", "wood">>,
     <<"SetShaderTexture", "wood2">>,
     <<"SetTextureUVScale", <<1000, 1000>>>>,
     <<"DrawMesh", "DrawPlaneMesh">>,
     <<"SetTransformations", <<<<1000, 2000, 20000>>, 0, 0, 0, <<17000, -1000, 0>>>>>>,
     <<"SetShaderColor", <<1000, 1000, 1000, 1000>>>>,
     <<"SetShaderMaterial", "wood">>,
     <<"SetShaderTexture", "wood2">>,
     <<"SetTextureUVScale", <<1000, 1000>>>>,
     <<"DrawMesh", "DrawBoxMesh">>,
     <<"SetTransformations", <<<<1000, 2000, 20000>>, 0, 0, 0, <<-17000, -1000, 0>>>>>>,
     <<"SetShaderColor", <<1000, 1000, 1000, 1000>>>>,
     <<"SetShaderMaterial", "wood">>,
     <<"SetShaderTexture", "wood2">>,
     <<"SetTextureUVScale", <<1000, 1000>>>>,
     <<"DrawMesh", "DrawBoxMesh">>,
     <<"SetTransformations", <<<<35000, 1000, 2000>>, 90000, 0, 0, <<0, -1000, 10500>>>>>>,
     <<"SetShaderColor", <<1000, 1000, 1000, 1000>>>>,
     <<"SetShaderMaterial", "wood">>,
     <<"SetShaderTexture", "wood2">>,
     <<"SetTextureUVScale", <<1000, 1000>>>>,
     <<"DrawMesh", "DrawBoxMesh">>,
     <<"SetTransformations", <<<<35000, 1000, 2000>>, 90000, 0, 0, <<0, -1000, -10500>>>>>>,
     <<"SetShaderColor", <<1000, 1000, 1000, 1000>>>>,
     <<"SetShaderMaterial", "wood">>,
     <<"SetShaderTexture", "wood2">>,
     <<"SetTextureUVScale", <<1000, 1000>>>>,
     <<"DrawMesh", "DrawBoxMesh">>,
     <<"SetTransformations", <<<<20000, 1500, 1500>>, 0, 90000, 0, <<-15750, -2800, 0>>>>>>,
     <<"SetShaderColor", <<0, 0, 0, 1000>>>>,
     <<"SetShaderMaterial", "metal">>,
     <<"DrawMesh", "DrawBoxMesh">>,
     <<"SetTransformations", <<<<20000, 1500, 1500>>, 0, 90000, 0, <<15750, -2800, 0>>>>>>,
     <<"SetShaderColor", <<0, 0, 0, 1000>>>>,
     <<"SetShaderMaterial", "metal">>,
     <<"DrawMesh", "DrawBoxMesh">>,
     <<"SetTransformations", <<<<30000, 1500, 1500>>, 0, 0, 0, <<0, -2800, 9250>>>>>>,
     <<"SetShaderColor", <<0, 0, 0, 1000>>>>,
     <<"SetShaderMaterial", "metal">>,
     <<"DrawMesh", "DrawBoxMesh">>,
     <<"SetTransformations", <<<<30000, 1500, 1500>>, 0, 0, 0, <<0, -2800, -9250>>>>>>,
     <<"SetShaderColor", <<0, 0, 0, 1000>>>>,
     <<"SetShaderMaterial", "metal">>,
     <<"DrawMesh", "DrawBoxMesh">>,
     <<"SetTransformations", <<<<30000, 1500, 1500>>, 0, 0, 0, <<0, -2800, -3500>>>>>>,
     <<"SetShaderColor", <<0, 0, 0, 1000>>>>,
     <<"SetShaderMaterial", "metal">>,
     <<"DrawMesh", "DrawBoxMesh">>,
     <<"SetTransformations", <<<<1500, 26300, 1500>>, 0, 0, 0, <<15750, -16700, -3500>>>>>>,
     <<"SetShaderColor", <<0, 0, 0, 1000>>>>,
     <<"SetShaderMaterial", "metal">>,
     <<"DrawMesh", "DrawBoxMesh">>,
     <<"SetTransformations", <<<<1500, 26300, 1500>>, 0, 0, 0, <<15750, -16700, -9250>>>>>>,
     <<"SetShaderColor", <<0, 0, 0, 1000>>>>,
     <<"SetShaderMaterial", "metal">>,
     <<"DrawMesh", "DrawBoxMesh">>,
     <<"SetTransformations", <<<<1500, 26300, 1500>>, 0, 0, 0, <<-15750, -16700, -9250>>>>>>,
     <<"SetShaderColor", <<0, 0, 0, 1000>>>>,
     <<"SetShaderMaterial", "metal">>,
     <<"DrawMesh", "DrawBoxMesh">>,
     <<"SetTransformations", <<<<1500, 26300, 1500>>, 0, 0, 0, <<-15750, -16700, -3500>>>>>>,
     <<"SetShaderColor", <<0, 0, 0, 1000>>>>,
     <<"SetShaderMaterial", "metal">>,
     <<"DrawMesh", "DrawBoxMesh">>,
     <<"SetTransformations", <<<<30000, 1500, 1500>>, 0, 0, 0, <<0, -29200, -9250>>>>>>,
     <<"SetShaderColor", <<0, 0, 0, 1000>>>>,
     <<"SetShaderMaterial", "metal">>,
     <<"DrawMesh", "DrawBoxMesh">>,
     <<"SetTransformations", <<<<30000, 1500, 1500>>, 0, 0, 0, <<0, -29200, -3500>>>>>>,
     <<"SetShaderColor", <<0, 0, 0, 1000>>>>,
     <<"SetShaderMaterial", "metal">>,
     <<"DrawMesh", "DrawBoxMesh">>,
     <<"SetTransformations", <<<<20000, 1500, 1500>>, 0, 90000, 0, <<15750, -29200, 0>>>>>>,
     <<"SetShaderColor", <<0, 0, 0, 1000>>>>,
     <<"SetShaderMaterial", "metal">>,
     <<"DrawMesh", "DrawBoxMesh">>,
     <<"SetTransformations", <<<<20000, 1500, 1500>>, 0, 90000, 0, <<-15750, -29200, 0>>>>>>,
     <<"SetShaderColor", <<0, 0, 0, 1000>>>>,
     <<"SetShaderMaterial", "metal">>,
     <<"DrawMesh", "DrawBoxMesh">>,
     <<"SetTransformations", <<<<30000, 1500, 1500>>, 0, 0, 0, <<0, -29200, 9250>>>>>>,
     <<"SetShaderColor", <<0, 0, 0, 1000>>>>,
     <<"SetShaderMaterial", "metal">>,
     <<"DrawMesh", "DrawBoxMesh">>,
     <<"SetTransformations", <<<<50000, 25000, 800>>, 0, 0, 0, <<-40000, 24500, -34000>>>>>>,
     <<"SetShaderColor", <<0, 0, 0, 1000>>>>,
     <<"SetShaderTexture", "pctexture">>,
     <<"DrawMesh", "DrawBoxMesh">>,
     <<"SetTransformations", <<<<24000, 100, 11500>>, 90000, 0, 0, <<-40000, 24500, -33590>>>>>>,
     <<"SetShaderColor", <<0, 0, 0, 1000>>>>,
     <<"SetShaderMaterial", "plastic">>,
     <<"DrawMesh", "DrawPlaneMesh">>,
     <<"SetTransformations", <<<<50000, 89800, 5100>>, 0, 0, 0, <<-44800, 15000, -37250>>>>>>,
     <<"SetShaderColor", <<0, 0, 0, 1000>>>>,
     <<"SetShaderTexture", "wood2">>,
     <<"SetShaderMaterial", "wood">>,
     <<"SetTextureUVScale", <<1000, 1000>>>>,
     <<"DrawMesh", "DrawBoxMesh">>,
     <<"SetTransformations", <<<<22000, 800, 12500>>, 0, 0, 0, <<-4000, 500, 800>>>>>>,
     <<"SetShaderColor", <<0, 0, 0, 1000>>>>,
     <<"SetShaderTexture", "pctexture">>,
     <<"SetShaderMaterial", "hardplastic">>,
     <<"DrawMesh", "DrawBoxMesh">>,
     <<"SetTransformations", <<<<22000, 200, 13000>>, 0, 0, 0, <<-4000, 1000, 700>>>>>>,
     <<"SetShaderColor", <<0, 1000, 1000, 1000>>>>,
     <<"SetShaderMaterial", "hardplastic">>,
     <<"SetShaderTexture", "pctexture">>,
     <<"DrawMesh", "DrawBoxMesh">>,
     <<"SetTransformations", <<<<10000, 150, 3500>>, 0, 0, 0, <<-4000, 1200, -1250>>>>>>,
     <<"SetShaderColor", <<0, 0, 0, 0>>>>,
     <<"SetShaderMaterial", "hardplastic">>,
     <<"SetShaderTexture", "keyboard">>,
     <<"SetTextureUVScale", <<1000, 1000>>>>,
     <<"DrawMesh", "DrawPlaneMesh">>,
     <<"SetTransformations", <<<<1000, 100, 1000>>, 0, 0, 0, <<-13000, 1200, 5000>>>>>>,
     <<"SetShaderColor", <<1000, 0, 0, 1000>>>>,
     <<"SetShaderTexture", "i7">>,
     <<"SetShaderMaterial", "hardplastic">>,
     <<"SetTextureUVScale", <<1000, 1000>>>>,
     <<"DrawMesh", "DrawPlaneMesh">>,
     <<"SetTransformations", <<<<2000, 100, 1500>>, 0, 0, 0, <<4500, 1200, 5500>>>>>>,
     <<"SetShaderColor", <<1000, 1000, 1000, 1000>>>>,
     <<"SetShaderTexture", "thinkpad">>,
     <<"SetShaderMaterial", "hardplastic">>,
     <<"SetTextureUVScale", <<1000, 1000>>>>,
     <<"DrawMesh", "DrawPlaneMesh">>,
     <<"SetTransformations", <<<<2000, 100, 1500>>, 120000, 180000, 0, <<4000, 10600, -11500>>>>>>,
     <<"SetShaderColor", <<1000, 1000, 1000, 1000>>>>,
     <<"SetShaderTexture", "thinkpad">>,
     <<"SetTextureUVScale", <<1000, 1000>>>>,
     <<"DrawMesh", "DrawPlaneMesh">>,
     <<"SetTransformations", <<<<22000, 200, 13000>>, 60000, 0, 0, <<-4000, 6700, -9000>>>>>>,
     <<"SetShaderColor", <<1000, 1000, 1000, 1000>>>>,
     <<"SetShaderTexture", "pctexture">>,
     <<"SetShaderMaterial", "hardplastic">>,
     <<"SetTextureUVScale", <<1000, 1000>>>>,
     <<"DrawMesh", "DrawBoxMesh">>,
     <<"SetTransformations", <<<<10500, 200, 5500>>, 60000, 0, 0, <<-4000, 6800, -8880>>>>>>,
     <<"SetShaderColor", <<1000, 1000, 1000, 1000>>>>,
     <<"SetShaderTexture", "screen">>,
     <<"SetShaderMaterial", "plastic">>,
     <<"SetTextureUVScale", <<1000, 1000>>>>,
     <<"DrawMesh", "DrawPlaneMesh">>,
     <<"SetTransformations", <<<<400, 1000, 400>>, 0, 0, 90000, <<4500, 1000, -5500>>>>>>,
     <<"SetShaderColor", <<1000, 1000, 1000, 1000>>>>,
     <<"SetShaderTexture", "pctexture">>,
     <<"SetShaderMaterial", "metal">>,
     <<"DrawMesh", "DrawCylinderMesh">>,
     <<"SetTransformations", <<<<400, 1000, 400>>, 0, 0, 90000, <<-11000, 1000, -5500>>>>>>,
     <<"SetShaderColor", <<1000, 0, 0, 1000>>>>,
     <<"SetShaderMaterial", "metal">>,
     <<"SetShaderTexture", "pctexture">>,
     <<"DrawMesh", "DrawCylinderMesh">>,
     <<"SetTransformations", <<<<4000, 800, 2000>>, 0, 0, 0, <<-4000, 1150, 4700>>>>>>,
     <<"SetShaderColor", <<0, 0, 0, 1000>>>>,
     <<"DrawMesh", "DrawPlaneMesh">>,
     <<"SetTransformations", <<<<3250, 100, 800>>, 0, 0, 0, <<-6370, 1150, 2300>>>>>>,
     <<"SetShaderColor", <<1000, 1000, 1000, 1000>>>>,
     <<"SetShaderTexture", "pctexture">>,
     <<"SetShaderMaterial", "hardplastic">>,
     <<"DrawMesh", "DrawBoxMesh">>,
     <<"SetTransformations", <<<<1550, 100, 50>>, 0, 0, 0, <<-6370, 1210, 2650>>>>>>,
     <<"SetShaderColor", <<1000, 0, 0, 1000>>>>,
     <<"SetShaderMaterial", "hardplastic">>,
     <<"DrawMesh", "DrawPlaneMesh">>,
     <<"SetTransformations", <<<<3250, 100, 800>>, 0, 0, 0, <<-1630, 1150, 2300>>>>>>,
     <<"SetShaderColor", <<1000, 1000, 1000, 1000>>>>,
     <<"SetShaderTexture", "pctexture">>,
     <<"SetShaderMaterial", "hardplastic">>,
     <<"DrawMesh", "DrawBoxMesh">>,
     <<"SetTransformations", <<<<1550, 100, 50>>, 0, 0, 0, <<-1630, 1210, 2650>>>>>>,
     <<"SetShaderColor", <<1000, 0, 0, 1000>>>>,
     <<"DrawMesh", "DrawPlaneMesh">>,
     <<"SetTransformations", <<<<1500, 100, 800>>, 0, 0, 0, <<-4000, 1151, 2300>>>>>>,
     <<"SetShaderColor", <<0, 0, 0, 1000>>>>,
     <<"SetShaderTexture", "pctexture">>,
     <<"SetShaderMaterial", "hardplastic">>,
     <<"DrawMesh", "DrawBoxMesh">>,
     <<"SetTransformations", <<<<800, 100, 800>>, 0, 0, 0, <<-3250, 1151, 2300>>>>>>,
     <<"SetShaderColor", <<0, 0, 0, 1000>>>>,
     <<"SetShaderTexture", "pctexture">>,
     <<"SetShaderMaterial", "hardplastic">>,
     <<"DrawMesh", "DrawPrismMesh">>,
     <<"SetTransformations", <<<<800, 100, 800>>, 0, 0, 0, <<-4750, 1151, 2300>>>>>>,
     <<"SetShaderColor", <<0, 0, 0, 1000>>>>,
     <<"SetShaderTexture", "pctexture">>,
     <<"SetShaderMaterial", "hardplastic">>,
     <<"DrawMesh", "DrawPrismMesh">>,
     <<"SetTransformations", <<<<2500, 2500, 4000>>, 0, 0, 0, <<11000, 100, 2000>>>>>>,
     <<"SetShaderColor", <<0, 0, 0, 1000>>>>,
     <<"DrawMesh", "DrawHalfSphereMesh">>,
     <<"SetTransformations", <<<<1000, 700, 1000>>, 0, 0, 90000, <<11300, 1700, 0>>>>>>,
     <<"SetShaderColor", <<1000, 1000, 1000, 1000>>>>,
     <<"DrawMesh", "DrawCylinderMesh">>,
     <<"SetTransformations", <<<<50000, 3000, 20000>>, 0, 0, 0, <<15000, -10700, -29800>>>>>>,
     <<"SetShaderColor", <<1000, 1000, 1000, 1000>>>>,
     <<"SetShaderTexture", "couch">>,
     <<"SetTextureUVScale", <<1000, 1000>>>>,
     <<"DrawMesh", "DrawBoxMesh">>,
     <<"SetTransformations", <<<<50000, 3000, 20000>>, 90000, 0, 0, <<15000, 750, -38000>>>>>>,
     <<"SetShaderColor", <<0, 1000, 1000, 1000>>>>,
     <<"SetShaderTexture", "couch">>,
     <<"SetTextureUVScale", <<1000, 1000>>>>,
     <<"DrawMesh", "DrawBoxMesh">>,
     <<"SetTransformations", <<<<50000, 17500, 19500>>, 0, 0, 0, <<15000, -21000, -30000>>>>>>,
     <<"SetShaderColor", <<0, 0, 1000, 1000>>>>,
     <<"SetShaderTexture", "wood2">>,
     <<"SetTextureUVScale", <<1000, 1000>>>>,
     <<"DrawMesh", "DrawBoxMesh">>,
     <<"SetTransformations", <<<<17000, 8000, 23000>>, 0, 0, 0, <<30000, -5000, -24800>>>>>>,
     <<"SetShaderColor", <<0, 0, 1000, 1000>>>>,
     <<"SetShaderTexture", "suitcase">>,
     <<"SetTextureUVScale", <<1000, 1000>>>>,
     <<"DrawMesh", "DrawBoxMesh">>,
     <<"SetTransformations", <<<<2000, 1200, 800>>, 90000, 0, 0, <<26000, -2400, -13000>>>>>>,
     <<"SetShaderColor", <<0, 0, 0, 1000>>>>,
     <<"DrawMesh", "DrawHalfSphereMesh">>,
     <<"SetTransformations", <<<<2000, 1200, 800>>, 90000, 0, 0, <<34500, -2400, -13000>>>>>>,
     <<"SetShaderColor", <<0, 0, 0, 1000>>>>,
     <<"DrawMesh", "DrawHalfSphereMesh">>,
     <<"SetTransformations", <<<<17500, 1500, 23500>>, 0, 0, 0, <<30000, -5000, -24800>>>>>>,
     <<"SetShaderColor", <<0, 0, 0, 1000>>>>,
     <<"SetShaderMaterial", "silicone">>,
     <<"DrawMesh", "DrawBoxMesh">> >>

\* one statement of RenderScene
RenderCall(st, c, material) ==
  IF st.ub THEN st
  ELSE CASE c[1] = "glEnable" ->
              Logged([st EXCEPT !.blend = TRUE], Event("glEnable", c[2], "", 0))
         [] c[1] = "glDisable" ->
              Logged([st EXCEPT !.blend = FALSE], Event("glDisable", c[2], "", 0))
         [] c[1] = "SetTransformations" ->
              SetTransformations(st, Transform(c[2][1], c[2][2], c[2][3], c[2][4], c[2][5]))
         [] c[1] = "SetShaderColor" -> SetShaderColor(st, c[2])
         [] c[1] = "SetShaderTexture" -> SetShaderTexture(st, c[2])
         [] c[1] = "SetShaderMaterial" -> SetShaderMaterial(st, c[2], material)
         [] c[1] = "SetTextureUVScale" -> SetTextureUVScale(st, c[2])
         [] c[1] = "DrawMesh" -> DrawMesh(st, c[2])

\* the statements lo .. hi of calls, in order
RECURSIVE RenderCalls(_, _, _, _, _)
RenderCalls(st, calls, lo, hi, material) ==
  IF lo = hi
    THEN RenderCall(st, calls[lo], material)
    ELSE LET mid == (lo + hi) \div 2
             first == RenderCalls(st, calls, lo, mid, material)
         IN IF first.ub THEN first
            ELSE RenderCalls(first, calls, mid + 1, hi, material)

\* RenderScene without the glDisable call of line 802
RenderScene_BlendLeftOn(st, material) ==
  CHOOSE done \in
    { RenderCalls(st, calls, 1, Len(calls), material) :
      calls \in {SelectSeq(SceneCalls, LAMBDA c : c[1] # "glDisable")} } : TRUE

\* RenderScene registering the scene materials again in every frame
RenderScene_Redefine(st, material) ==
  DefineObjectMaterials(RenderCalls(st, SceneCalls, 1, Len(SceneCalls), material))

\* RenderScene with the draw of line 1512 made twice
RenderScene_DrawTwice(st, material) ==
  CHOOSE done \in
    { RenderCalls(st, calls, 1, Len(calls), material) :
      calls \in {Append(SceneCalls, SceneCalls[Len(SceneCalls)])} } : TRUE

\* RenderScene with the colour of its first entry set after the texture
RenderScene_ColorLast(st, material) ==
  CHOOSE done \in
    { RenderCalls(st, calls, 1, Len(calls), material) :
      calls \in {<< SceneCalls[1], SceneCalls[3], SceneCalls[2] >>
                   \o SubSeq(SceneCalls, 4, Len(SceneCalls))} } : TRUE

\* RenderScene without the SetTextureUVScale call of its first entry
RenderScene_NoFirstUV(st, material) ==
  CHOOSE done \in
    { RenderCalls(st, calls, 1, Len(calls), material) :
      calls \in {SubSeq(SceneCalls, 1, 4)
                   \o SubSeq(SceneCalls, 6, Len(SceneCalls))} } : TRUE

\* RenderScene without its SetTextureUVScale(1.0f, 1.0f) calls
RenderScene_NoUVReset(st, material) ==
  CHOOSE done \in
    { RenderCalls(st, calls, 1, Len(calls), material) :
      calls \in {SelectSeq(SceneCalls,
                           LAMBDA c : ~(c[1] = "SetTextureUVScale"
                                          /\ c[2] = << 1000, 1000 >>))} } : TRUE

RenderScene(st, material) ==
  RenderCalls(st, SceneCalls, 1, Len(SceneCalls), material)

\* ~SceneManager without the DestroyGLTextures call of line 60
Destructor_NoRelease(st) ==
  Logged([st EXCEPT !.meshes = {}], Event("delete", "m_basicMeshes", "", 0))

\* ~SceneManager
Destructor(st) ==
  DestroyGLTextures(
    Logged([st EXCEPT !.meshes = {}], Event("delete", "m_basicMeshes", "", 0)))
\* ----------------------------------------------------------- the machine
\* the values a write past the array can leave m_loadedTextures with: the
\* increment of line 116, or a counter the stray stores have overwritten
StrayCounts(n) == {0, n, n + 1}

\* what a call finds when it begins
Snapshot ==
  [ ids |-> m_textureIDs, n |-> m_loadedTextures, tex |-> glTextures,
    bound |-> glBound, bad |-> glBadDeletes, loaded |-> loaded,
    mats |-> m_objectMaterials, uni |-> uniforms, blend |-> glBlend,
    draws |-> SelectSeq(trace, LAMBDA e : e.op = "DrawMesh") ]

\* the state a call leaves behind
Commit(st, after) ==
  /\ m_textureIDs' = st.ids
  /\ m_loadedTextures' \in (IF st.ub THEN StrayCounts(st.n) ELSE {st.n})
  /\ m_objectMaterials' = st.mats
  /\ meshesLoaded' = st.meshes
  /\ glTextures' = st.tex
  /\ glBound' = st.bound
  /\ glActive' = st.active
  /\ glNextName' = st.next
  /\ glBlend' = st.blend
  /\ glBadDeletes' = st.bad
  /\ uniforms' = st.uni
  /\ oobWrites' = st.oob
  /\ loaded' = st.loaded
  /\ trace' = st.log
  /\ phase' = IF st.ub THEN "undefined" ELSE after
  /\ before' = Snapshot
  /\ UNCHANGED glReuse

Returned(op, tag, ok, val) == [op |-> op, tag |-> tag, ok |-> ok, val |-> val]

\* SceneManager(pShaderManager)
Init ==
  /\ phase = "live"
  /\ m_pShaderManager \in {"sink", "NULL"}
  /\ m_textureIDs = [i \in Slots |-> [tag |-> NoTag, ID |-> NoID]]
  /\ m_loadedTextures = 0
  /\ m_objectMaterials = << >>
  /\ meshesLoaded = {}
  /\ glReuse \in BOOLEAN
  /\ glNextName = 1
  /\ glTextures = {}
  /\ glBound = [u \in Slots |-> 0]
  /\ glActive = 0
  /\ glBlend = FALSE
  /\ glBadDeletes = 0
  /\ uniforms = [u \in UniformNames |-> << >>]
  /\ oobWrites = 0
  /\ loaded = 0
  /\ call = Returned("SceneManager", "", TRUE, 0)
  /\ trace = << >>
  /\ before = Snapshot
  /\ nLoads = 0
  /\ nSets = 0

\* a query: nothing but the result changes
Query(result) ==
  /\ phase = "live"
  /\ call' = result
  /\ trace' = << >>
  /\ before' = Snapshot
  /\ UNCHANGED << phase, m_pShaderManager, m_textureIDs, m_loadedTextures,
                  m_objectMaterials, meshesLoaded, glReuse, glNextName,
                  glTextures, glBound, glActive, glBlend, glBadDeletes,
                  uniforms, oobWrites, loaded, nLoads, nSets >>

Load(tag, decoded) ==
  /\ phase = "live"
  /\ nLoads < MaxLoads
  /\ \E st \in {CreateGLTexture(Machine, tag, decoded)} :
       /\ Commit(st, "live")
       /\ call' = Returned("CreateGLTexture", tag, decoded, m_loadedTextures)
  /\ nLoads' = nLoads + 1
  /\ UNCHANGED << m_pShaderManager, nSets >>

BindAll ==
  /\ phase = "live"
  /\ \E st \in {BindGLTextures(Machine)} : Commit(st, "live")
  /\ call' = Returned("BindGLTextures", "", TRUE, m_loadedTextures)
  /\ UNCHANGED << m_pShaderManager, nLoads, nSets >>

ReleaseAll ==
  /\ phase = "live"
  /\ \E st \in {DestroyGLTextures(Machine)} : Commit(st, "live")
  /\ call' = Returned("DestroyGLTextures", "", TRUE, m_loadedTextures)
  /\ UNCHANGED << m_pShaderManager, nLoads, nSets >>

FindHandle(tag) ==
  LET textureID == FindTextureID(m_textureIDs, m_loadedTextures, tag)
  IN Query(Returned("FindTextureID", tag, textureID # NotFound, textureID))

FindUnit(tag) ==
  LET textureSlot == FindTextureSlot(m_textureIDs, m_loadedTextures, tag)
  IN Query(Returned("FindTextureSlot", tag, textureSlot # NotFound, textureSlot))

Lookup(tag) ==
  LET found == FindMaterial(m_objectMaterials, tag, NoMaterial)
  IN Query(Returned("FindMaterial", tag, found.ret, found.material.shininess))

FailedSets == SUBSET FailingFiles

Prepare(failed) ==
  /\ phase = "live"
  /\ Len(m_objectMaterials) < MaxPrepare * Len(SceneMaterials)
  /\ \E st \in {PrepareScene(Machine, failed)} :
       /\ Commit(st, "live")
       /\ call' = Returned("PrepareScene", "", ~st.ub, Cardinality(failed))
  /\ UNCHANGED << m_pShaderManager, nLoads, nSets >>

Destroy ==
  /\ phase = "live"
  /\ \E st \in {Destructor(Machine)} : Commit(st, "destroyed")
  /\ m_pShaderManager' = "NULL"
  /\ call' = Returned("~SceneManager", "", TRUE, m_loadedTextures)
  /\ UNCHANGED << nLoads, nSets >>

Next ==
  \/ \E tag \in LoadTags, decoded \in BOOLEAN : Load(tag, decoded)
  \/ BindAll
  \/ ReleaseAll
  \/ \E tag \in QueryTags : FindHandle(tag)
  \/ \E tag \in QueryTags : FindUnit(tag)
  \/ \E tag \in MaterialQueryTags : Lookup(tag)
  \/ \E failed \in FailedSets : Prepare(failed)
  \/ Destroy

Spec == Init /\ [][Next]_vars

\* ------------------------------------------------------ the draw pipeline
\* the arguments a client passes to the pipeline calls
Colors == { << 1000, 1000, 1000, 1000 >> }
UVScales == { << 3000, 1000 >> }
Transforms ==
  { Transform(<< 2000, 1000, 1000 >>, 0, 90000, 0, << 5000, 0, 0 >>),
    Transform(<< 1000, 2000, 3000 >>, 90000, 0, 90000, << 0, 1000, 0 >>) }

\* a client may make a direct call of a pipeline method
CanSet ==
  /\ phase = "live"
  /\ nSets < MaxSets

\* the state a direct call of a pipeline method leaves behind
Set(st, result) ==
  /\ Commit(st, "live")
  /\ call' = result
  /\ nSets' = nSets + 1
  /\ UNCHANGED << m_pShaderManager, nLoads >>

SetTransform(t) ==
  /\ CanSet
  /\ \E st \in {SetTransformations(Machine, t)} :
       Set(st, Returned("SetTransformations", "", TRUE, t))

SetColor(color) ==
  /\ CanSet
  /\ \E st \in {SetShaderColor(Machine, color)} :
       Set(st, Returned("SetShaderColor", "", TRUE, 0))

SetTexture(tag) ==
  /\ CanSet
  /\ \E st \in {SetShaderTexture(Machine, tag)} :
       Set(st, Returned("SetShaderTexture", tag, TRUE,
                        FindTextureSlot(m_textureIDs, m_loadedTextures, tag)))

SetMaterial(tag) ==
  /\ CanSet
  /\ \E material \in Indeterminate :
       \E st \in {SetShaderMaterial(Machine, tag, material)} :
         Set(st, Returned("SetShaderMaterial", tag, ~st.ub, 0))

SetUVScale(uv) ==
  /\ CanSet
  /\ \E st \in {SetTextureUVScale(Machine, uv)} :
       Set(st, Returned("SetTextureUVScale", "", TRUE, 0))

DrawNext ==
  \/ \E failed \in FailedSets : Prepare(failed)
  \/ ReleaseAll
  \/ \E t \in Transforms : SetTransform(t)
  \/ \E color \in Colors : SetColor(color)
  \/ \E tag \in DrawTags : SetTexture(tag)
  \/ \E tag \in MaterialQueryTags : SetMaterial(tag)
  \/ \E uv \in UVScales : SetUVScale(uv)

DrawSpec == Init /\ [][DrawNext]_vars

\* ------------------------------------------------------------- the frames
Render ==
  /\ phase = "live"
  /\ \E material \in Indeterminate :
       \E st \in {RenderScene(Machine, material)} :
         /\ Commit(st, "live")
         /\ call' = Returned("RenderScene", "", ~st.ub, 0)
  /\ UNCHANGED << m_pShaderManager, nLoads, nSets >>

FrameNext ==
  \/ \E failed \in FailedSets : Prepare(failed)
  \/ ReleaseAll
  \/ Render

FrameSpec == Init /\ [][FrameNext]_vars
\* ================================================================ claims
\* the live slots of the table that carry a tag
LiveSlots(tag) ==
  {i \in Slots : i < m_loadedTextures /\ m_textureIDs[i].tag = tag}

\* the entries of trace that are calls of op
Calls(op) == {k \in DOMAIN trace : trace[k].op = op}

\* C1: a CreateGLTexture call that finds 16 textures registered reports
\* failure, creates no GPU texture and leaves the count and every slot as
\* they were.
C1_LoadAtCapacityRejected ==
  (call.op = "CreateGLTexture" /\ before.n = MaxTextures) =>
    /\ ~call.ok
    /\ glTextures = before.tex
    /\ m_loadedTextures = before.n
    /\ m_textureIDs = before.ids

\* C2: in every reachable state 0 <= m_loadedTextures <= 16 and no slot at
\* index 16 or above has been written.
C2_AtMostSixteenSlots ==
  /\ m_loadedTextures \in 0 .. MaxTextures
  /\ oobWrites = 0

\* C3: FindTextureSlot(t) returns the lowest live slot whose tag is t and
\* FindTextureID(t) the ID stored in that slot; both return -1 when no live
\* slot has tag t.  After "wood1" then "wood2", FindTextureSlot("wood2") = 1
\* and FindTextureSlot("missing") = -1.
C3_FindFirstMatch ==
  /\ call.op = "FindTextureSlot" =>
       call.val = IF LiveSlots(call.tag) = {} THEN NotFound
                  ELSE Min(LiveSlots(call.tag))
  /\ call.op = "FindTextureID" =>
       call.val = IF LiveSlots(call.tag) = {} THEN NotFound
                  ELSE m_textureIDs[Min(LiveSlots(call.tag))].ID
  /\ ( /\ call.op = "FindTextureSlot"
       /\ m_loadedTextures = 2
       /\ m_textureIDs[0].tag = "wood1"
       /\ m_textureIDs[1].tag = "wood2" ) =>
       /\ call.tag = "wood2" => call.val = 1
       /\ call.tag = "missing" => call.val = -1

C3_Witness ==
  /\ call.op = "FindTextureSlot"
  /\ call.tag = "wood2"
  /\ call.val = 1
  /\ m_loadedTextures = 2
  /\ m_textureIDs[0].tag = "wood1"
\* C4: a CreateGLTexture call whose image does not decode returns false,
\* generates no GPU texture and leaves the count and the slots unchanged; the
\* table stays usable: every successful call registers at the slot whose
\* index is the number of calls that succeeded before it.
C4_DecodeFailureHarmless ==
  /\ (call.op = "CreateGLTexture" /\ ~call.ok) =>
       /\ phase = "live"
       /\ glTextures = before.tex
       /\ m_loadedTextures = before.n
       /\ m_textureIDs = before.ids
  /\ phase = "live" =>
       \A k \in Calls("CreateGLTexture") :
         trace[k].ret = "true" =>
           /\ trace[k].val = before.loaded
                + Cardinality({j \in Calls("CreateGLTexture") :
                                 j < k /\ trace[j].ret = "true"})
           /\ m_textureIDs[trace[k].val].tag = trace[k].tag
           /\ m_textureIDs[trace[k].val].ID \in glTextures \ before.tex

\* a failed call followed by a successful one, which registers at slot 0
C4_Witness ==
  /\ call.op = "CreateGLTexture"
  /\ call.ok
  /\ nLoads = 2
  /\ glNextName = 2
  /\ m_loadedTextures = 1
  /\ m_textureIDs[0].tag = call.tag

\* C5: after DestroyGLTextures the count is 0, every texture that was
\* registered has been deleted, and FindTextureID and FindTextureSlot return
\* -1 for every tag that was loaded.
C5_ReleaseEmptiesTable ==
  call.op = "DestroyGLTextures" =>
    /\ m_loadedTextures = 0
    /\ \A i \in Slots : i < before.n =>
         /\ before.ids[i].ID \notin glTextures
         /\ FindTextureID(m_textureIDs, m_loadedTextures, before.ids[i].tag) = NotFound
         /\ FindTextureSlot(m_textureIDs, m_loadedTextures, before.ids[i].tag) = NotFound

C5_Witness ==
  /\ call.op = "DestroyGLTextures"
  /\ before.n = MaxTextures
  /\ Cardinality(before.tex) = MaxTextures
  /\ glTextures = {}

\* C6: DestroyGLTextures on an empty table issues no glDeleteTextures and
\* changes nothing, and DestroyGLTextures always leaves the table empty, so
\* a second call in a row is such a call.
C6_ReleaseIdempotent ==
  call.op = "DestroyGLTextures" =>
    /\ m_loadedTextures = 0
    /\ before.n = 0 =>
         /\ Calls("glDeleteTextures") = {}
         /\ m_textureIDs = before.ids
         /\ glTextures = before.tex
         /\ glBound = before.bound
         /\ glBadDeletes = before.bad

\* a second DestroyGLTextures after one that released textures
C6_Witness ==
  /\ call.op = "DestroyGLTextures"
  /\ before.n = 0
  /\ m_textureIDs[0].ID = 0
  /\ m_textureIDs[1].ID = 0

\* C7: when the destructor has run it has called DestroyGLTextures exactly
\* once, no texture created by CreateGLTexture is left in the context, and
\* no glDeleteTextures was ever issued for a texture that did not exist.
C7_TeardownReleasesOnce ==
  phase = "destroyed" =>
    /\ Cardinality(Calls("DestroyGLTextures")) = 1
    /\ glTextures = {}
    /\ glBadDeletes = 0
    /\ \A name \in before.tex :
         Cardinality({k \in Calls("glDeleteTextures") : trace[k].val = name}) = 1

\* a scene destroyed with textures registered, after an earlier explicit
\* DestroyGLTextures that had released more of them
C7_Witness ==
  /\ phase = "destroyed"
  /\ before.n > 0
  /\ before.n < MaxTextures
  /\ before.ids[before.n].ID = 0
  /\ Cardinality(Calls("glDeleteTextures")) = before.n

\* C8: BindGLTextures binds the ID of slot i to texture unit i for every
\* i < m_loadedTextures and leaves the units from m_loadedTextures on as they
\* were; after it (called directly, or by PrepareScene after its loads) the
\* unit FindTextureSlot(t) holds the texture FindTextureID(t) for every
\* registered tag t.
C8_BindSlotToUnit ==
  /\ call.op = "BindGLTextures" =>
       \A i \in Slots :
         /\ i < m_loadedTextures => glBound[i] = m_textureIDs[i].ID
         /\ i >= m_loadedTextures => glBound[i] = before.bound[i]
  /\ (call.op \in {"BindGLTextures", "PrepareScene"} /\ phase = "live") =>
       \A i \in Slots : i < m_loadedTextures =>
         LET t == m_textureIDs[i].tag
         IN glBound[FindTextureSlot(m_textureIDs, m_loadedTextures, t)]
              = FindTextureID(m_textureIDs, m_loadedTextures, t)

C8_Witness ==
  /\ call.op = "BindGLTextures"
  /\ m_loadedTextures = 2
  /\ m_textureIDs[0].tag = m_textureIDs[1].tag
  /\ glBound[1] = m_textureIDs[1].ID
  /\ glBound[1] # glBound[0]

\* C9: PrepareScene calls BindGLTextures once, after its last CreateGLTexture
\* call and before its first mesh draw.
C9_BindOnceAfterLoads ==
  call.op = "PrepareScene" =>
    /\ Cardinality(Calls("BindGLTextures")) <= 1
    /\ phase = "live" => Cardinality(Calls("BindGLTextures")) = 1
    /\ \A b \in Calls("BindGLTextures") :
         /\ \A l \in Calls("CreateGLTexture") : l < b
         /\ \A d \in Calls("DrawMesh") : b < d

C9_Witness ==
  /\ call.op = "PrepareScene"
  /\ phase = "live"
  /\ Cardinality(Calls("CreateGLTexture")) = Len(SceneTextures)
  /\ Cardinality(Calls("DrawMesh")) = Len(SetupDraws)
  /\ m_loadedTextures = Len(SceneTextures) - 1

\* C10: FindMaterial returns true exactly when some registered material has
\* the requested tag.
C10_FindMaterialReportsMiss ==
  call.op = "FindMaterial" =>
    (call.ok <=> \E k \in DOMAIN m_objectMaterials :
                   m_objectMaterials[k].tag = call.tag)

\* the uniforms SetShaderMaterial writes
MaterialUniforms ==
  {"material.diffuseColor", "material.specularColor", "material.shininess"}

\* the positions of the registry that carry a tag
Registered(tag) ==
  {k \in DOMAIN m_objectMaterials : m_objectMaterials[k].tag = tag}

\* C11: a SetShaderMaterial call whose tag matches no registered material
\* writes none of material.diffuseColor, material.specularColor and
\* material.shininess: the three uniforms are as they were before the call,
\* whether the registry is empty or not.
C11_MissWritesNothing ==
  (call.op = "SetShaderMaterial" /\ Registered(call.tag) = {}) =>
    \A u \in MaterialUniforms : uniforms[u] = before.uni[u]

\* C12: a SetShaderMaterial call whose tag some registered material has
\* writes the diffuse colour, specular colour and shininess of the earliest
\* registered material with that tag: the scan stops there, so a material
\* registered later under the same tag is never the one pushed.
C12_EarliestMaterialPushed ==
  (call.op = "SetShaderMaterial" /\ Registered(call.tag) # {}) =>
    LET first == Min(Registered(call.tag))
    IN /\ call.ok
       /\ trace[1].ret = "true"
       /\ trace[1].val = first
       /\ uniforms["material.diffuseColor"] = m_objectMaterials[first].diffuseColor
       /\ uniforms["material.specularColor"] = m_objectMaterials[first].specularColor
       /\ uniforms["material.shininess"] = << m_objectMaterials[first].shininess >>

\* "wood" pushed from a registry that holds it twice
C12_Witness ==
  /\ call.op = "SetShaderMaterial"
  /\ call.tag = "wood"
  /\ Cardinality(Registered("wood")) = 2
  /\ trace[1].val = 3
  /\ uniforms["material.diffuseColor"] = << 550, 270, 70 >>
  /\ uniforms["material.shininess"] = << 20000 >>

\* C13: the bUseTexture uniform is last-write-wins between SetShaderColor and
\* SetShaderTexture.  With a shader manager attached, SetShaderColor leaves
\* it false, SetShaderTexture leaves it true with objectTexture the slot of
\* the tag when the tag is registered, and every other call leaves it as it
\* was: so it is true exactly when the more recent of the two was
\* SetShaderTexture.
C13_UseTextureLastWriteWins ==
  m_pShaderManager # "NULL" =>
    /\ call.op = "SetShaderColor" => uniforms["bUseTexture"] = << 0 >>
    /\ call.op = "SetShaderTexture" =>
         /\ uniforms["bUseTexture"] = << 1 >>
         /\ LiveSlots(call.tag) # {} =>
              uniforms["objectTexture"] = << Min(LiveSlots(call.tag)) >>
    /\ call.op \notin {"SetShaderColor", "SetShaderTexture"} =>
         uniforms["bUseTexture"] = before.uni["bUseTexture"]

\* SetShaderColor, then SetShaderTexture with a registered tag
C13_Witness ==
  /\ call.op = "SetShaderTexture"
  /\ before.uni["bUseTexture"] = << 0 >>
  /\ before.uni["objectColor"] # << >>
  /\ LiveSlots(call.tag) # {}
  /\ uniforms["bUseTexture"] = << 1 >>
  /\ uniforms["objectTexture"] = << 4 >>

\* C14: a SetShaderTexture call whose tag is not registered does not fail
\* and leaves the texture table and the textures of the context as they
\* were; with a shader manager attached it still sets bUseTexture and pushes
\* -1 as objectTexture.
C14_UnknownTexturePushesSentinel ==
  (call.op = "SetShaderTexture" /\ LiveSlots(call.tag) = {}) =>
    /\ phase = "live"
    /\ call.ok
    /\ call.val = NotFound
    /\ m_textureIDs = before.ids
    /\ m_loadedTextures = before.n
    /\ glTextures = before.tex
    /\ glBound = before.bound
    /\ m_pShaderManager # "NULL" =>
         /\ uniforms["bUseTexture"] = << 1 >>
         /\ uniforms["objectTexture"] = << -1 >>

\* an unregistered tag looked up in a full table, after a registered one
C14_Witness ==
  /\ call.op = "SetShaderTexture"
  /\ call.tag = "missing"
  /\ m_loadedTextures = MaxTextures
  /\ before.uni["objectTexture"] = << 4 >>
  /\ uniforms["bUseTexture"] = << 1 >>
  /\ uniforms["objectTexture"] = << -1 >>

\* a point moved by a model matrix, and by each transformation on its own
Apply(m, p) ==
  [i \in 1 .. 3 |->
    Rescaled(m[i][1] * p[1] + m[i][2] * p[2] + m[i][3] * p[3] + m[i][4] * 1000)]

Scaled(p, v) == [i \in 1 .. 3 |-> Rescaled(p[i] * v[i])]

RotatedX(p, degrees) ==
  << p[1],
     Rescaled(Cosine(degrees) * p[2] - Sine(degrees) * p[3]),
     Rescaled(Sine(degrees) * p[2] + Cosine(degrees) * p[3]) >>

RotatedY(p, degrees) ==
  << Rescaled(Cosine(degrees) * p[1] + Sine(degrees) * p[3]),
     p[2],
     Rescaled(Cosine(degrees) * p[3] - Sine(degrees) * p[1]) >>

RotatedZ(p, degrees) ==
  << Rescaled(Cosine(degrees) * p[1] - Sine(degrees) * p[2]),
     Rescaled(Sine(degrees) * p[1] + Cosine(degrees) * p[2]),
     p[3] >>

Moved(p, v) == [i \in 1 .. 3 |-> p[i] + v[i]]

\* the origin and the three unit points
LocalPoints ==
  { << 0, 0, 0 >>, << 1000, 0, 0 >>, << 0, 1000, 0 >>, << 0, 0, 1000 >> }

\* C15: the model matrix SetTransformations pushes is Translate * RotateZ *
\* RotateY * RotateX * Scale: it moves a local point as scaling it, rotating
\* it about X, then Y, then Z, and translating it does.  For scale (2,1,1),
\* rotation (0,90,0) and position (5,0,0) the local point (1,0,0) lands on
\* (5,0,-2).
C15_ModelMatrixOrder ==
  (call.op = "SetTransformations" /\ m_pShaderManager # "NULL") =>
    /\ \A p \in LocalPoints :
         Apply(uniforms["model"], p) =
           Moved(RotatedZ(RotatedY(RotatedX(Scaled(p, call.val.scaleXYZ),
                                            call.val.XrotationDegrees),
                                   call.val.YrotationDegrees),
                          call.val.ZrotationDegrees),
                 call.val.positionXYZ)
    /\ call.val = Transform(<< 2000, 1000, 1000 >>, 0, 90000, 0, << 5000, 0, 0 >>) =>
         Apply(uniforms["model"], << 1000, 0, 0 >>) = << 5000, 0, -2000 >>

C15_Witness ==
  /\ call.op = "SetTransformations"
  /\ call.val.YrotationDegrees = 90000
  /\ call.val.scaleXYZ = << 2000, 1000, 1000 >>
  /\ uniforms["model"] # << >>
  /\ Apply(uniforms["model"], << 1000, 0, 0 >>) = << 5000, 0, -2000 >>

\* the draws of trace between which no other draw lies
NoDrawBetween(i, j) == \A k \in (i + 1) .. (j - 1) : trace[k].op # "DrawMesh"

\* the draws of the window pane: those whose entry selects the texture
\* "window"
WindowDraws ==
  {d \in Calls("DrawMesh") :
     \E k \in Calls("SetShaderTexture") :
       /\ k < d
       /\ trace[k].tag = "window"
       /\ NoDrawBetween(k, d)}

\* C16: in every frame GL_BLEND is enabled right before the entry of the
\* window pane, with no draw and no glDisable between the glEnable and the
\* pane's draw, and is disabled right after that draw, before the next
\* entry is drawn: the pane is drawn with blending, the draw after it
\* without, and the frame ends with blending disabled.
C16_BlendAroundWindow ==
  call.op = "RenderScene" =>
    /\ WindowDraws # {}
    /\ \A d \in WindowDraws :
         /\ \E e \in Calls("glEnable") :
              /\ e < d
              /\ \A k \in (e + 1) .. (d - 1) :
                   trace[k].op \notin {"DrawMesh", "glDisable"}
         /\ trace[d].val = 1
         /\ d + 1 \in Calls("glDisable")
         /\ \A n \in Calls("DrawMesh") : n > d => trace[n].val = 0
    /\ ~glBlend

\* a frame drawn after PrepareScene, whose pane finds its texture
C16_Witness ==
  /\ call.op = "RenderScene"
  /\ Cardinality(WindowDraws) = 1
  /\ \E k \in Calls("SetShaderTexture") :
       trace[k].tag = "window" /\ trace[k].val >= 0
  /\ before.blend
  /\ ~glBlend

\* the calls that set the colour, texture, material and UV scale of a draw
SurfaceOps ==
  {"SetShaderColor", "SetShaderTexture", "SetShaderMaterial", "SetTextureUVScale"}

\* the position of the draw before draw d (0 when d is the first)
PreviousDraw(d) ==
  IF \E k \in 1 .. (d - 1) : trace[k].op = "DrawMesh"
    THEN CHOOSE k \in 1 .. (d - 1) :
           trace[k].op = "DrawMesh" /\ NoDrawBetween(k, d)
    ELSE 0

\* C17: in RenderScene every scene entry is one SetTransformations call,
\* then the entry's colour, texture, material and UV calls, then one draw:
\* between two consecutive draws (and before the first) there is exactly one
\* SetTransformations call and it precedes every colour, texture, material
\* and UV call made there, and the frame ends with a draw.
C17_EntryShape ==
  call.op = "RenderScene" =>
    /\ trace[Len(trace)].op = "DrawMesh"
    /\ \A d \in Calls("DrawMesh") :
         LET entry == (PreviousDraw(d) + 1) .. (d - 1)
         IN /\ Cardinality({k \in entry : trace[k].op = "SetTransformations"}) = 1
            /\ \A k \in entry :
                 trace[k].op \in SurfaceOps =>
                   \E t \in entry : t < k /\ trace[t].op = "SetTransformations"

\* a whole frame, with an entry of five surface calls between its
\* SetTransformations and its draw
C17_Witness ==
  /\ call.op = "RenderScene"
  /\ Cardinality(Calls("DrawMesh")) = Cardinality(Calls("SetTransformations"))
  /\ Cardinality(Calls("DrawMesh")) > 1
  /\ \E d \in Calls("DrawMesh") :
       /\ d - PreviousDraw(d) = 7
       /\ trace[d - 6].op = "SetTransformations"
       /\ \A k \in (d - 5) .. (d - 1) : trace[k].op \in SurfaceOps

\* C18: RenderScene, with every pipeline call it makes, leaves the texture
\* table (the count, the tags and the IDs), the textures of the context and
\* the material registry as they were.
C18_FrameKeepsTables ==
  call.op = "RenderScene" =>
    /\ m_loadedTextures = before.n
    /\ m_textureIDs = before.ids
    /\ glTextures = before.tex
    /\ m_objectMaterials = before.mats

\* a frame that wrote the uniforms, drawn over a table one texture short
C18_Witness ==
  /\ call.op = "RenderScene"
  /\ before.n = MaxTextures - 1
  /\ before.mats # << >>
  /\ before.uni["model"] = << >>
  /\ uniforms["model"] # << >>
  /\ uniforms["material.shininess"] # << >>

\* the mesh draws RenderScene makes
SceneDraws == {k \in DOMAIN SceneCalls : SceneCalls[k][1] = "DrawMesh"}

\* C19: CreateGLTexture calls that fail to decode during set-up stop neither
\* PrepareScene nor RenderScene.  With a shader manager attached, a
\* PrepareScene on an empty table with failed loads completes, registers the
\* textures that decoded and makes its draws.  Every frame makes all its
\* draws; a SetShaderTexture of the frame whose tag is not in the table
\* pushes -1, and one whose tag is in the table pushes the tag's slot, which
\* is the unit BindGLTextures bound to the tag's own texture, also when the
\* slots after a failed load are one lower; no SetShaderColor comes between
\* the SetShaderTexture and the draw of its entry, so bUseTexture is true at
\* that draw.
C19_FailedLoadsDoNotStopScene ==
  /\ ( /\ call.op = "PrepareScene"
       /\ call.val > 0
       /\ before.n = 0
       /\ m_pShaderManager # "NULL" ) =>
       /\ phase = "live"
       /\ call.ok
       /\ m_loadedTextures = Len(SceneTextures) - call.val
       /\ Cardinality(Calls("DrawMesh")) = Len(SetupDraws)
  /\ call.op = "RenderScene" =>
       /\ phase = "live"
       /\ call.ok
       /\ Cardinality(Calls("DrawMesh")) = Cardinality(SceneDraws)
       /\ m_pShaderManager # "NULL" =>
            \A k \in Calls("SetShaderTexture") :
              /\ IF LiveSlots(trace[k].tag) = {}
                   THEN trace[k].val = -1
                   ELSE /\ trace[k].val = Min(LiveSlots(trace[k].tag))
                        /\ glBound[trace[k].val] = m_textureIDs[trace[k].val].ID
                        /\ glBound[trace[k].val] \in glTextures
              /\ \A j \in Calls("SetShaderColor") :
                   j > k => \E d \in Calls("DrawMesh") : k < d /\ d < j

\* a frame after a set-up in which "wood2" failed to decode: its draws push
\* -1 for "wood2" and slot 4, not 5, for "couch"
C19_Witness ==
  /\ call.op = "RenderScene"
  /\ m_loadedTextures = Len(SceneTextures) - 1
  /\ \E k \in Calls("SetShaderTexture") :
       trace[k].tag = "wood2" /\ trace[k].val = -1
  /\ \E k \in Calls("SetShaderTexture") :
       /\ trace[k].tag = "couch"
       /\ trace[k].val = 4
       /\ m_textureIDs[4].tag = "couch"
       /\ glBound[4] = m_textureIDs[4].ID

\* the uniforms of the four point lights of the shader: LightUniforms[i + 1]
\* lists the eight fields of pointLights[i]
LightUniforms ==
  <<
     << "pointLights[0].position", "pointLights[0].ambient",
        "pointLights[0].diffuse", "pointLights[0].specular",
        "pointLights[0].bActive", "pointLights[0].constant",
        "pointLights[0].linear", "pointLights[0].quadratic" >>,
     << "pointLights[1].position", "pointLights[1].ambient",
        "pointLights[1].diffuse", "pointLights[1].specular",
        "pointLights[1].bActive", "pointLights[1].constant",
        "pointLights[1].linear", "pointLights[1].quadratic" >>,
     << "pointLights[2].position", "pointLights[2].ambient",
        "pointLights[2].diffuse", "pointLights[2].specular",
        "pointLights[2].bActive", "pointLights[2].constant",
        "pointLights[2].linear", "pointLights[2].quadratic" >>,
     << "pointLights[3].position", "pointLights[3].ambient",
        "pointLights[3].diffuse", "pointLights[3].specular",
        "pointLights[3].bActive", "pointLights[3].constant",
        "pointLights[3].linear", "pointLights[3].quadratic" >> >>

\* the uniforms that hold a value
Written == {u \in DOMAIN uniforms : uniforms[u] # << >>}

\* C20: SetupSceneLights sets bUseLighting and, for every light it
\* configures, writes all eight fields of pointLights[i]; it writes no light
\* uniform outside pointLights[0] .. pointLights[3], so it configures at most
\* four lights.  (SetupSceneLights is reached through PrepareScene.)
C20_LightsWrittenWhole ==
  (call.op = "PrepareScene" /\ phase = "live") =>
    /\ uniforms["bUseLighting"] = << 1 >>
    /\ \A i \in DOMAIN LightUniforms :
         \/ \A f \in DOMAIN LightUniforms[i] : LightUniforms[i][f] \in Written
         \/ \A f \in DOMAIN LightUniforms[i] : LightUniforms[i][f] \notin Written
    /\ Written \ {u \in DOMAIN before.uni : before.uni[u] # << >>} \subseteq
         {"bUseLighting"} \cup
         {LightUniforms[i][f] : i \in DOMAIN LightUniforms, f \in 1 .. 8}
    /\ Cardinality({i \in DOMAIN LightUniforms :
                      LightUniforms[i][1] \in Written}) <= 4

\* the first PrepareScene of a scene, which configured three lights
C20_Witness ==
  /\ call.op = "PrepareScene"
  /\ phase = "live"
  /\ before.uni["bUseLighting"] = << >>
  /\ uniforms["pointLights[0].position"] = << -110000, 50000, 20000 >>
  /\ uniforms["pointLights[2].quadratic"] = << 2 >>
  /\ "pointLights[1].bActive" \in Written

\* C21: in every reachable state the tags of the live slots are pairwise
\* different, also after two CreateGLTexture calls with the same tag.
C21_LiveTagsUnique ==
  \A i, j \in Slots :
    (i < m_loadedTextures /\ j < m_loadedTextures /\ i # j) =>
      m_textureIDs[i].tag # m_textureIDs[j].tag

\* the uniforms a pipeline call may write
OwnUniforms(op) ==
  CASE op = "SetTransformations" -> {"model"}
    [] op = "SetShaderColor" -> {"bUseTexture", "objectColor"}
    [] op = "SetShaderTexture" -> {"bUseTexture", "objectTexture"}
    [] op = "SetShaderMaterial" -> MaterialUniforms
    [] op = "SetTextureUVScale" -> {"UVscale"}

\* C22: each pipeline call writes only its own uniforms and leaves every
\* other uniform as it was: SetTransformations "model", SetShaderColor
\* "bUseTexture" and "objectColor", SetShaderTexture "bUseTexture" and
\* "objectTexture", SetShaderMaterial the three "material." uniforms,
\* SetTextureUVScale "UVscale".  What a call writes is fixed by its own
\* arguments and the tables, whatever the calls before it wrote.
C22_OwnUniformsOnly ==
  call.op \in SurfaceOps \cup {"SetTransformations"} =>
    /\ \A u \in DOMAIN uniforms :
         u \notin OwnUniforms(call.op) => uniforms[u] = before.uni[u]
    /\ m_pShaderManager # "NULL" =>
         /\ call.op = "SetShaderColor" =>
              uniforms["objectColor"] \in Colors /\ uniforms["bUseTexture"] = << 0 >>
         /\ call.op = "SetShaderTexture" =>
              uniforms["objectTexture"] = << call.val >>
                /\ uniforms["bUseTexture"] = << 1 >>
         /\ call.op = "SetTextureUVScale" => uniforms["UVscale"] \in UVScales

\* a SetTextureUVScale call made after a SetShaderColor call
C22_Witness ==
  /\ call.op = "SetTextureUVScale"
  /\ before.uni["UVscale"] = << >>
  /\ uniforms["UVscale"] = << 3000, 1000 >>
  /\ uniforms["bUseTexture"] = << 0 >>
  /\ uniforms["objectColor"] # << >>

\* the slots past the count that still carry the tag
StaleSlots(tag) ==
  {i \in Slots : i >= m_loadedTextures /\ m_textureIDs[i].tag = tag}

\* C23: the texture lookups consult the live slots only: FindTextureID and
\* FindTextureSlot return -1 for a tag no live slot carries, whatever the
\* slots past the count hold; so on the freshly constructed table every tag,
\* the placeholder "/0" included, is not found, and after DestroyGLTextures
\* and k new loads a tag left only in a slot at index k or more is not found.
C23_LookupsScanLiveSlotsOnly ==
  (call.op \in {"FindTextureID", "FindTextureSlot"} /\ LiveSlots(call.tag) = {}) =>
    call.val = NotFound /\ ~call.ok

\* FindTextureSlot asked, after a release and one new load, for a tag that
\* only a stale slot carries
C23_Witness ==
  /\ call.op = "FindTextureSlot"
  /\ call.tag = "wood2"
  /\ m_loadedTextures = 1
  /\ m_textureIDs[0].tag = "wood1"
  /\ StaleSlots("wood2") # {}
  /\ call.val = NotFound

\* FindTextureID asked for the placeholder tag on the constructed table
C23_FreshWitness ==
  /\ call.op = "FindTextureID"
  /\ call.tag = NoTag
  /\ m_loadedTextures = 0
  /\ \A i \in Slots : m_textureIDs[i] = [tag |-> NoTag, ID |-> NoID]
  /\ call.val = NotFound

\* C24: with no shader manager attached every state-pushing operation
\* (SetTransformations, SetShaderColor, SetShaderTexture, SetTextureUVScale,
\* SetShaderMaterial, SetupSceneLights) is a no-op: no uniform is ever
\* written and the null pointer is never called through.
C24_NullSinkNoOp ==
  m_pShaderManager = "NULL" =>
    /\ phase # "undefined"
    /\ \A u \in DOMAIN uniforms : uniforms[u] = << >>
    /\ \A k \in DOMAIN trace : trace[k].op # "set"

\* the guarded calls alone: with no shader manager attached
\* SetTransformations, SetShaderColor, SetShaderTexture and
\* SetTextureUVScale return without a write
C24_GuardedCallsSkip ==
  (m_pShaderManager = "NULL" /\ call.op \in SurfaceOps \cup {"SetTransformations"}) =>
    /\ phase = "live"
    /\ uniforms = before.uni
    /\ \A k \in DOMAIN trace : trace[k].op # "set"

\* C25: no mesh is drawn before a model transform has been pushed: every
\* Draw*Mesh call, those of PrepareScene included, comes after a
\* SetTransformations call of the same operation or of an earlier one.
C25_TransformBeforeDraw ==
  \A k \in Calls("DrawMesh") :
    \/ \E j \in Calls("SetTransformations") : j < k
    \/ before.uni["model"] # << >>

\* within RenderScene every draw follows a SetTransformations call
C25_FrameDrawsAfterTransform ==
  call.op = "RenderScene" =>
    \A k \in Calls("DrawMesh") : \E j \in Calls("SetTransformations") : j < k

\* C26: at every draw of every frame, the first frame after PrepareScene
\* included, GL_BLEND is enabled exactly when the entry drawn is the window
\* pane.
C26_BlendOnlyForWindow ==
  call.op = "RenderScene" =>
    \A d \in Calls("DrawMesh") : (trace[d].val = 1) <=> (d \in WindowDraws)

\* the same for the frames that start with GL_BLEND disabled, as every frame
\* after the first of a set-up does
C26_LaterFrames ==
  (call.op = "RenderScene" /\ ~before.blend) =>
    \A d \in Calls("DrawMesh") : (trace[d].val = 1) <=> (d \in WindowDraws)

\* the calls of the entry that draw d ends
Entry(d) == (PreviousDraw(d) + 1) .. (d - 1)

\* C27: in RenderScene every entry calls SetShaderColor, and none calls it
\* after SetShaderTexture; so at every draw "bUseTexture" is true exactly
\* when the entry drawn called SetShaderTexture itself.
C27_FlagFollowsTexture ==
  call.op = "RenderScene" =>
    \A d \in Calls("DrawMesh") :
      LET textured == {x \in Entry(d) : trace[x].op = "SetShaderTexture"}
          colored == {c \in Entry(d) : trace[c].op = "SetShaderColor"}
      IN /\ colored # {}
         /\ \A x \in textured : \A c \in colored : c < x
         /\ m_pShaderManager # "NULL" =>
              (trace[d].uni["bUseTexture"] = << 1 >>) <=> (textured # {})

\* a frame with a textured entry drawn right before an untextured one
C27_Witness ==
  /\ call.op = "RenderScene"
  /\ m_pShaderManager # "NULL"
  /\ \E d \in Calls("DrawMesh") :
       /\ trace[d].uni["bUseTexture"] = << 0 >>
       /\ PreviousDraw(d) # 0
       /\ trace[PreviousDraw(d)].uni["bUseTexture"] = << 1 >>
       /\ \E x \in Entry(PreviousDraw(d)) : trace[x].op = "SetShaderTexture"

\* C28: when every CreateGLTexture call of LoadSceneTextures succeeds, every
\* tag RenderScene passes to SetShaderTexture is found in a live slot (the
\* sampler pushed is one of 0 .. 15, never -1) and every tag it passes to
\* SetShaderMaterial is the tag of a registered material.
C28_SceneTagsResolve ==
  (call.op = "RenderScene" /\ m_pShaderManager # "NULL"
     /\ m_loadedTextures = MaxTextures /\ m_objectMaterials # << >>) =>
    /\ \A k \in Calls("SetShaderTexture") :
         /\ trace[k].val \in 0 .. (MaxTextures - 1)
         /\ m_textureIDs[trace[k].val].tag = trace[k].tag
    /\ \A k \in Calls("SetShaderMaterial") :
         /\ trace[k].ret = "true"
         /\ trace[k].val \in 1 .. Len(m_objectMaterials)
         /\ m_objectMaterials[trace[k].val].tag = trace[k].tag

\* a frame drawn with all sixteen textures loaded, using thirteen texture
\* tags and eight material tags
C28_Witness ==
  /\ call.op = "RenderScene"
  /\ m_pShaderManager # "NULL"
  /\ m_loadedTextures = MaxTextures
  /\ Len(m_objectMaterials) = Len(SceneMaterials)
  /\ Cardinality({trace[k].tag : k \in Calls("SetShaderTexture")}) = 13
  /\ Cardinality({trace[k].tag : k \in Calls("SetShaderMaterial")}) = 8
  /\ \A k \in Calls("SetShaderTexture") : trace[k].val # NotFound

\* the draws of the operation, each with the uniform state it was made under
Draws == SelectSeq(trace, LAMBDA e : e.op = "DrawMesh")

\* the uniforms the draw pipeline sets
PipelineUniforms ==
  {"model", "objectColor", "bUseTexture", "objectTexture", "UVscale"}
    \cup MaterialUniforms

\* C29: frames are repeatable: the k-th draw of a RenderScene call is made
\* under the same "model", "objectColor", "bUseTexture", "objectTexture",
\* "material." and "UVscale" values as the k-th draw of the RenderScene call
\* before it, the first frame after PrepareScene included.
C29_FramesRepeat ==
  (call.op = "RenderScene" /\ Len(before.draws) = Cardinality(SceneDraws)) =>
    /\ Len(Draws) = Len(before.draws)
    /\ \A k \in DOMAIN Draws :
         /\ Draws[k].tag = before.draws[k].tag
         /\ \A u \in PipelineUniforms : Draws[k].uni[u] = before.draws[k].uni[u]

\* the second frame after a PrepareScene: the frame before it began with
\* the pipeline uniforms unset, this one with what that frame left
C29_Witness ==
  /\ call.op = "RenderScene"
  /\ Len(before.draws) = Cardinality(SceneDraws)
  /\ m_objectMaterials # << >>
  /\ before.uni["model"] # << >>
  /\ Draws[1].uni["UVscale"] = << 1000, 1000 >>
  /\ Draws[3].uni["UVscale"] = << 3000, 1000 >>
  /\ Draws[1].uni["material.shininess"] = << 20000 >>
  /\ Draws[1].uni["objectTexture"] # << NotFound >>

\* the draws whose entry calls SetShaderTexture and not SetTextureUVScale
InheritedUVDraws ==
  {d \in Calls("DrawMesh") :
     /\ \E x \in Entry(d) : trace[x].op = "SetShaderTexture"
     /\ \A u \in Entry(d) : trace[u].op # "SetTextureUVScale"}

\* C30: the UV scale does not leak: every entry of RenderScene that calls
\* SetShaderTexture without calling SetTextureUVScale is drawn under the
\* "UVscale" (1, 1), which it inherits from an earlier entry.
C30_InheritedUVScaleIsOne ==
  (call.op = "RenderScene" /\ m_pShaderManager # "NULL") =>
    \A d \in InheritedUVDraws : trace[d].uni["UVscale"] = << 1000, 1000 >>

\* a frame with ten textured entries that inherit their UV scale, drawn
\* after entries that set other scales
C30_Witness ==
  /\ call.op = "RenderScene"
  /\ m_pShaderManager # "NULL"
  /\ Cardinality(InheritedUVDraws) = 10
  /\ \E d \in Calls("DrawMesh") : trace[d].uni["UVscale"] = << 3000, 3000 >>
  /\ \A d \in InheritedUVDraws : trace[d].uni["UVscale"] = << 1000, 1000 >>
====
